---- MODULE Spec2Model ----
(***************************************************************************)
(* A model of the orbital propagation engine: the Satellite class of       *)
(* satellite.py and the helper functions of orbital_mechanics.py.          *)
(*                                                                         *)
(* Python values are records [cls, s, v, nan]: cls is the Python class,    *)
(* s the text of a str, v the value of a number and nan whether a float    *)
(* is NaN.  A float is held in fixed point with three decimals: v is the   *)
(* value times Scale (51.6 degrees is 51600, eccentricity 0.001 is 1,      *)
(* 6778 km is 6778000).  NaN is the one non-finite float of the model; it  *)
(* compares false with everything and every operation on it gives NaN.     *)
(***************************************************************************)
EXTENDS Integers, Sequences, FiniteSets, TLC

\* sats: the Satellite objects constructed so far, in order of construction
\* built: for each of them, the fields as the constructor stored them
\* gens: the generator objects the caller holds
\* last: the call just made, with what it returned or raised; Idle between calls
\* threads: the calculate_position calls in progress when callers run in
\*          parallel, each with its position in the method and its locals
VARIABLES sats, built, gens, last, threads

vars == <<sats, built, gens, last, threads>>

(***************************************************************************)
(* Bounds of the model.                                                    *)
(***************************************************************************)
MaxSats == 2

MaxGens == 1

\* generators alive at a time when the generators are exercised on their own
MaxLive == 2

\* callers inside calculate_position at a time
MaxThreads == 2

(***************************************************************************)
(* Python values.                                                          *)
(***************************************************************************)
\* three decimals
Scale == 1000

PyStr(x) == [cls |-> "str", s |-> x, v |-> 0, nan |-> FALSE]

PyInt(n) == [cls |-> "int", s |-> "", v |-> n * Scale, nan |-> FALSE]

PyFloat(m) == [cls |-> "float", s |-> "", v |-> m, nan |-> FALSE]

NaN == [cls |-> "float", s |-> "", v |-> 0, nan |-> TRUE]

PyNone == [cls |-> "NoneType", s |-> "", v |-> 0, nan |-> FALSE]

PyDatetime(k) == [cls |-> "datetime", s |-> "", v |-> k, nan |-> FALSE]

\* isinstance(x, (int, float))
IsNumber(x) == x.cls \in {"int", "float"}

\* isinstance(x, str)
IsStr(x) == x.cls = "str"

\* the v of an int above the largest float (such as 10 ** 400)
HugeInt == 2147483647

PyHuge == [cls |-> "int", s |-> "", v |-> HugeInt, nan |-> FALSE]

\* float(x) raises OverflowError: x is an int above the largest float
FloatOverflows(x) == x.cls = "int" /\ x.v = HugeInt

\* float(x) of a number x
ToFloat(x) == [cls |-> "float", s |-> "", v |-> x.v, nan |-> x.nan]

\* x < c, x <= c, x > c, x >= c for a number x and a literal c (times Scale):
\* every comparison with NaN is False.
LtC(x, c) == ~x.nan /\ x.v < c

\* a faulty <=: the limit itself is let through
LeC_Strict(x, c) == ~x.nan /\ x.v < c

LeC(x, c) == ~x.nan /\ x.v <= c

GtC(x, c) == ~x.nan /\ x.v > c

GeC(x, c) == ~x.nan /\ x.v >= c

\* a local variable: x = e, then F(x); e is evaluated once and x holds its value
Bind(e, F(_)) == CHOOSE r \in {F(x) : x \in {e}} : TRUE

(***************************************************************************)
(* Float arithmetic in fixed point.  Results are rounded to the nearest    *)
(* multiple of 1/Scale; a NaN operand gives NaN; a numpy division by zero  *)
(* gives a non-finite value, which the model holds as NaN.                 *)
(***************************************************************************)
Abs(n) == IF n < 0 THEN -n ELSE n

Sign(n) == IF n < 0 THEN -1 ELSE 1

Min(a, b) == IF a <= b THEN a ELSE b

Max(a, b) == IF a >= b THEN a ELSE b

\* n / d for d > 0, rounded to the nearest integer (halves away from zero)
RDiv(n, d) == Sign(n) * ((2 * Abs(n) + d) \div (2 * d))

\* a * b / Scale, without ever forming a * b
MulScaled(a, b) ==
    LET x == Abs(a)
        y == Abs(b)
        xq == x \div Scale
        xr == x % Scale
        yq == y \div Scale
        yr == y % Scale
    IN Sign(a) * Sign(b) * (xq * yq * Scale + xq * yr + xr * yq + RDiv(xr * yr, Scale))

\* a * Scale / b for b # 0, without ever forming a * Scale
DivScaled(a, b) ==
    LET x == Abs(a)
        y == Abs(b)
    IN Sign(a) * Sign(b) * ((x \div y) * Scale + RDiv((x % y) * Scale, y))

FAdd(a, b) == IF a.nan \/ b.nan THEN NaN ELSE PyFloat(a.v + b.v)

FSub(a, b) == IF a.nan \/ b.nan THEN NaN ELSE PyFloat(a.v - b.v)

FMul(a, b) == IF a.nan \/ b.nan THEN NaN ELSE PyFloat(MulScaled(a.v, b.v))

FDiv(a, b) == IF a.nan \/ b.nan \/ b.v = 0 THEN NaN ELSE PyFloat(DivScaled(a.v, b.v))

FAbs(a) == IF a.nan THEN NaN ELSE PyFloat(Abs(a.v))

\* a % m for m > 0: Python's remainder, in [0, m)
FMod(a, m) == IF a.nan \/ m.nan \/ m.v = 0 THEN NaN ELSE PyFloat(a.v % m.v)

FLt(a, b) == ~a.nan /\ ~b.nan /\ a.v < b.v

FLe(a, b) == ~a.nan /\ ~b.nan /\ a.v <= b.v

FGt(a, b) == ~a.nan /\ ~b.nan /\ a.v > b.v

FGe(a, b) == ~a.nan /\ ~b.nan /\ a.v >= b.v

\* the largest r with r * r <= n, for n >= 0
RECURSIVE IsqrtBetween(_, _, _)
IsqrtBetween(n, lo, hi) ==
    IF lo >= hi THEN lo
    ELSE LET mid == (lo + hi + 1) \div 2
         IN IF mid * mid <= n THEN IsqrtBetween(n, mid, hi)
            ELSE IsqrtBetween(n, lo, mid - 1)

Isqrt(n) == IsqrtBetween(n, 0, Min(n, 46340))

\* np.sqrt: NaN for a negative or NaN operand
FSqrt(a) ==
    IF a.nan \/ a.v < 0 THEN NaN
    ELSE IF a.v <= 2000000 THEN PyFloat(Isqrt(a.v * Scale))
    ELSE PyFloat(RDiv(Isqrt(a.v) * Isqrt(Scale * Scale * Scale), Scale))

(***************************************************************************)
(* np.pi, np.sin, np.cos, np.arctan2, np.radians on the fixed-point grid.  *)
(* sin is Bhaskara's rational approximation on [0, pi], extended by        *)
(* sin(x + pi) = -sin(x); cos(x) = sin(x + pi/2); both stay in [-1, 1].    *)
(***************************************************************************)
Pi == 3142

TwoPi == 2 * Pi

HalfPi == Pi \div 2

SinUnit(x) ==
    LET r == x % TwoPi
        h == IF r >= Pi THEN r - Pi ELSE r
        p == h * (Pi - h)
        q == Min(Scale, RDiv(16 * p, (5 * Pi * Pi - 4 * p) \div Scale))
    IN IF r >= Pi THEN -q ELSE q

CosUnit(x) == SinUnit(x + HalfPi)

NpSin(a) == IF a.nan THEN NaN ELSE PyFloat(SinUnit(a.v))

NpCos(a) == IF a.nan THEN NaN ELSE PyFloat(CosUnit(a.v))

\* arctan(y / x) for 0 <= y <= x, x > 0: z * (pi/4 + 0.273 * (1 - z))
AtanUnit(y, x) ==
    LET z == DivScaled(y, x)
    IN MulScaled(z, (Pi \div 4) + MulScaled(273, Scale - z))

\* arctan(y / x) for x >= 0, y >= 0, not both zero
AtanQuadrant(y, x) == IF y <= x THEN AtanUnit(y, x) ELSE HalfPi - AtanUnit(x, y)

Arctan2Unit(y, x) ==
    IF x = 0 /\ y = 0 THEN 0
    ELSE IF x >= 0 /\ y >= 0 THEN AtanQuadrant(y, x)
    ELSE IF x < 0 /\ y >= 0 THEN Pi - AtanQuadrant(y, -x)
    ELSE IF x < 0 /\ y < 0 THEN AtanQuadrant(-y, -x) - Pi
    ELSE -AtanQuadrant(-y, x)

NpArctan2(y, x) == IF y.nan \/ x.nan THEN NaN ELSE PyFloat(Arctan2Unit(y.v, x.v))

\* np.radians: degrees * pi / 180
NpRadians(a) == IF a.nan THEN NaN ELSE PyFloat(RDiv(a.v * (Pi \div 2), 90 * Scale))

(***************************************************************************)
(* Satellite.__init__: the validation chain and the nine assignments.      *)
(* The result is [raised, msg, self]: the exception ("" when none), its    *)
(* message, and the object (PyNone when the constructor raised).           *)
(***************************************************************************)
Raise(exc, m) == [raised |-> exc, msg |-> m, self |-> PyNone]

NewObject(a) ==
    [raised |-> "", msg |-> "",
     self |-> [cls |-> "Satellite",
               name |-> a.name,
               satellite_id |-> a.satellite_id,
               inclination |-> ToFloat(a.inclination),
               eccentricity |-> ToFloat(a.eccentricity),
               semi_major_axis |-> ToFloat(a.semi_major_axis),
               mean_anomaly |-> ToFloat(a.mean_anomaly),
               raan |-> ToFloat(a.raan),
               argument_of_perigee |-> ToFloat(a.argument_of_perigee),
               epoch |-> a.epoch]]

BadName(a) == ~IsStr(a.name) \/ a.name.s = ""

BadId(a) == ~IsStr(a.satellite_id) \/ a.satellite_id.s = ""

BadInclination(a) ==
    ~IsNumber(a.inclination) \/ LtC(a.inclination, 0) \/ GtC(a.inclination, 180 * Scale)

BadEccentricity(a) ==
    ~IsNumber(a.eccentricity) \/ LtC(a.eccentricity, 0) \/ GeC(a.eccentricity, 1 * Scale)

BadSemiMajorAxis(a) == ~IsNumber(a.semi_major_axis) \/ LeC(a.semi_major_axis, 0)

BadMeanAnomaly(a) == ~IsNumber(a.mean_anomaly)

BadEpoch(a) == a.epoch.cls # "datetime"

BadRaan(a) == ~IsNumber(a.raan) \/ LtC(a.raan, 0) \/ GeC(a.raan, 360 * Scale)

BadArgumentOfPerigee(a) ==
    ~IsNumber(a.argument_of_perigee) \/ LtC(a.argument_of_perigee, 0)
        \/ GeC(a.argument_of_perigee, 360 * Scale)

Satellite__init__(a) ==
    IF BadName(a) THEN Raise("ValueError", "Satellite name must be a non-empty string")
    ELSE IF BadId(a) THEN Raise("ValueError", "Satellite ID must be a non-empty string")
    ELSE IF BadInclination(a)
        THEN Raise("ValueError", "Inclination must be a number between 0 and 180 degrees")
    ELSE IF BadEccentricity(a)
        THEN Raise("ValueError", "Eccentricity must be a number between 0 and 1")
    ELSE IF BadSemiMajorAxis(a)
        THEN Raise("ValueError", "Semi-major axis must be a positive number")
    ELSE IF BadMeanAnomaly(a) THEN Raise("ValueError", "Mean anomaly must be a number")
    ELSE IF BadEpoch(a) THEN Raise("ValueError", "Epoch must be a datetime object")
    ELSE IF BadRaan(a)
        THEN Raise("ValueError", "RAAN must be a number between 0 and 360 degrees")
    ELSE IF BadArgumentOfPerigee(a)
        THEN Raise("ValueError",
                   "Argument of perigee must be a number between 0 and 360 degrees")
    ELSE IF \E x \in {a.inclination, a.eccentricity, a.semi_major_axis, a.mean_anomaly,
                      a.raan, a.argument_of_perigee} : FloatOverflows(x)
        THEN Raise("OverflowError", "int too large to convert to float")
    ELSE NewObject(a)

(***************************************************************************)
(* Satellite.solve_kepler_equation: Newton's method on                     *)
(* f(E) = E - e*sin(E) - M.  The result is [raised, value, updates,        *)
(* converged, trace, fprimes, self]: trace holds the initial guess and     *)
(* every E_new computed, fprimes every divisor f'(E) used.                 *)
(***************************************************************************)
\* the default tolerance 1e-10 lies below the grid: it is held as the
\* smallest positive float, so |E_new - E| < tolerance means E_new = E
DefaultTolerance == 1

DefaultMaxIterations == 100

\* f(E) = E - e*sin(E) - M
KeplerF(e, M, E) == FSub(FSub(E, FMul(e, NpSin(E))), M)

\* f'(E) = 1 - e*cos(E)
KeplerFPrime(e, E) == FSub(PyInt(1), FMul(e, NpCos(E)))

\* E_new = E_old - f(E)/f'(E)
NewtonUpdate(e, M, E) == FSub(E, FDiv(KeplerF(e, M, E), KeplerFPrime(e, E)))

\* abs(E_new - E) < tolerance
Converged(ENew, E, tolerance) == FLt(FAbs(FSub(ENew, E)), tolerance)

\* a faulty pass: on convergence the return statement hands back the old E
LoopBody_ReturnsOld(e, M, tolerance, st) ==
    IF st.returned THEN st
    ELSE LET ENew == NewtonUpdate(e, M, st.E)
             tr == Append(st.trace, ENew)
             fp == Append(st.fprimes, KeplerFPrime(e, st.E))
         IN IF Converged(ENew, st.E, tolerance)
            THEN [E |-> st.E, updates |-> st.updates + 1, returned |-> TRUE,
                  value |-> st.E, trace |-> tr, fprimes |-> fp]
            ELSE [E |-> ENew, updates |-> st.updates + 1, returned |-> FALSE,
                  value |-> st.value, trace |-> tr, fprimes |-> fp]

\* one pass through the body of the for loop, from the loop state st =
\* [E, updates, returned, value, trace, fprimes]; a pass after the return
\* statement was reached does nothing
LoopBody(e, M, tolerance, st) ==
    IF st.returned THEN st
    ELSE LET ENew == NewtonUpdate(e, M, st.E)
             tr == Append(st.trace, ENew)
             fp == Append(st.fprimes, KeplerFPrime(e, st.E))
         IN IF Converged(ENew, st.E, tolerance)
            THEN [E |-> st.E, updates |-> st.updates + 1, returned |-> TRUE,
                  value |-> ENew, trace |-> tr, fprimes |-> fp]
            ELSE [E |-> ENew, updates |-> st.updates + 1, returned |-> FALSE,
                  value |-> st.value, trace |-> tr, fprimes |-> fp]

\* for _ in range(n): n passes through the body, split in halves
RECURSIVE NewtonLoop(_, _, _, _, _)
NewtonLoop(e, M, tolerance, st, n) ==
    IF n <= 0 THEN st
    ELSE IF n = 1 THEN LoopBody(e, M, tolerance, st)
    ELSE Bind(NewtonLoop(e, M, tolerance, st, n \div 2),
              LAMBDA half : IF half.returned THEN half
                            ELSE NewtonLoop(e, M, tolerance, half, n - (n \div 2)))

\* a faulty initial guess: M is normalized first
InitialGuess_Normalized(e, mean_anomaly_rad) ==
    IF LtC(e, 8 * (Scale \div 10)) THEN FMod(mean_anomaly_rad, PyFloat(TwoPi))
    ELSE PyFloat(Pi)

\* E = M if e < 0.8 else pi, taken before M is normalized
InitialGuess(e, mean_anomaly_rad) ==
    IF LtC(e, 8 * (Scale \div 10)) THEN mean_anomaly_rad ELSE PyFloat(Pi)

\* the loop state before the first pass
LoopStart(E0) ==
    [E |-> E0, updates |-> 0, returned |-> FALSE, value |-> E0,
     trace |-> <<E0>>, fprimes |-> <<>>]

\* what the method returns from the loop state st the loop ended in: the
\* value of the return statement inside the loop, or E after the loop
SolverResult(self, st) ==
    [raised |-> "", msg |-> "",
     value |-> IF st.returned THEN st.value ELSE st.E,
     updates |-> st.updates, converged |-> st.returned,
     trace |-> st.trace, fprimes |-> st.fprimes, self |-> self]

\* a faulty loop: range(max_iterations + 1)
KeplerLoop_OneMore(self, E0, M, tolerance, max_iterations) ==
    Bind(NewtonLoop(self.eccentricity, M, tolerance, LoopStart(E0), max_iterations + 1),
         LAMBDA st : SolverResult(self, st))

\* the loop, from the initial guess E0 and the normalized M
KeplerLoop(self, E0, M, tolerance, max_iterations) ==
    Bind(NewtonLoop(self.eccentricity, M, tolerance, LoopStart(E0), max_iterations),
         LAMBDA st : SolverResult(self, st))

solve_kepler_equation(self, mean_anomaly_rad, tolerance, max_iterations) ==
    Bind(mean_anomaly_rad,
         LAMBDA m : KeplerLoop(self, InitialGuess(self.eccentricity, m),
                               FMod(m, PyFloat(TwoPi)), tolerance, max_iterations))

(***************************************************************************)
(* Satellite.calculate_position.  The result is [raised, msg, value,       *)
(* kepler_calls, self]: value is <<x, y, z>> in km (<<>> when the call     *)
(* raised), kepler_calls the number of solve_kepler_equation calls made,   *)
(* self the object after the call.                                         *)
(*                                                                         *)
(* Three decimals cannot hold a**3 in km**3 nor the mean motion in rad/s,  *)
(* so the mean motion is computed with lengths in 1000 km and times in     *)
(* 1000 s: mu = 398600.4418 km^3/s^2 = 398.600 (1000 km)^3/(1000 s)^2.     *)
(***************************************************************************)
Mu == 398600

\* a length in km as a length in 1000 km; a time in s as a time in 1000 s
ToThousands(x) == IF x.nan THEN NaN ELSE PyFloat(RDiv(x.v, Scale))

\* a value in 1000 km or 1000 s as a value in km or s
FromThousands(x) == IF x.nan THEN NaN ELSE PyFloat(x.v * Scale)

\* a ** 3, in (1000 km)^3
Cube(a) == LET am == ToThousands(a) IN FMul(FMul(am, am), am)

\* the eccentricity below which the orbit is treated as circular: 1e-10 lies
\* below the grid and is held as the smallest positive float
CircularThreshold == 1

\* nu from E and e
TrueAnomaly(e, E) ==
    IF LtC(e, CircularThreshold) THEN E
    ELSE LET sqrt_term == FSqrt(FDiv(FAdd(PyInt(1), e), FSub(PyInt(1), e)))
             half == FDiv(E, PyInt(2))
         IN FMul(PyInt(2), NpArctan2(FMul(sqrt_term, NpSin(half)), NpCos(half)))

\* r = a(1 - e^2) / (1 + e*cos(nu))
Radius(a, e, nu) ==
    FDiv(FMul(a, FSub(PyInt(1), FMul(e, e))), FAdd(PyInt(1), FMul(e, NpCos(nu))))

\* R_z(angle) applied to v = <<x, y, z>>
RotateZ(v, angle) ==
    <<FSub(FMul(v[1], NpCos(angle)), FMul(v[2], NpSin(angle))),
      FAdd(FMul(v[1], NpSin(angle)), FMul(v[2], NpCos(angle))),
      v[3]>>

\* R_x(angle) applied to v = <<x, y, z>>
RotateX(v, angle) ==
    <<v[1],
      FSub(FMul(v[2], NpCos(angle)), FMul(v[3], NpSin(angle))),
      FAdd(FMul(v[2], NpSin(angle)), FMul(v[3], NpCos(angle)))>>

\* the three rotations R_z(omega), R_x(i), R_z(Omega) of (x_pqw, y_pqw, 0)
Rotate(x_pqw, y_pqw, omega, i, Omega) ==
    RotateZ(RotateX(RotateZ(<<x_pqw, y_pqw, PyFloat(0)>>, omega), i), Omega)

PositionRaise(self, exc, m) ==
    [raised |-> exc, msg |-> m, value |-> <<>>, kepler_calls |-> 0, self |-> self]

\* from r and nu on: the perifocal coordinates and the rotations; k is what
\* solve_kepler_equation returned
PositionFromRadius(k, nu, r) ==
    [raised |-> "", msg |-> "",
     value |-> Rotate(FMul(r, NpCos(nu)), FMul(r, NpSin(nu)),
                      NpRadians(k.self.argument_of_perigee),
                      NpRadians(k.self.inclination),
                      NpRadians(k.self.raan)),
     kepler_calls |-> 1, self |-> k.self]

\* from nu on
PositionFromTrueAnomaly(k, nu) ==
    Bind(Radius(k.self.semi_major_axis, k.self.eccentricity, nu),
         LAMBDA r : PositionFromRadius(k, nu, r))

\* from E on
PositionFromSolution(k) ==
    Bind(TrueAnomaly(k.self.eccentricity, k.value),
         LAMBDA nu : PositionFromTrueAnomaly(k, nu))

\* a faulty propagation: the object is advanced, self.mean_anomaly = M(t)
PositionFromMeanAnomaly_Advancing(self, mean_anomaly_at_time) ==
    Bind(solve_kepler_equation([self EXCEPT !.mean_anomaly = mean_anomaly_at_time],
                               mean_anomaly_at_time,
                               PyFloat(DefaultTolerance), DefaultMaxIterations),
         PositionFromSolution)

\* from M(t) on: the one call of the solver, with its default arguments
PositionFromMeanAnomaly(self, mean_anomaly_at_time) ==
    Bind(solve_kepler_equation(self, mean_anomaly_at_time,
                               PyFloat(DefaultTolerance), DefaultMaxIterations),
         PositionFromSolution)

\* n = sqrt(mu / a**3) and M(t) = M0 + n*t, in radians
MeanAnomalyAtTime(self, time_delta_seconds, a3) ==
    FAdd(NpRadians(self.mean_anomaly),
         FMul(FSqrt(FDiv(PyFloat(Mu), a3)), ToThousands(time_delta_seconds)))

\* from a ** 3 on
PositionFromCube(self, time_delta_seconds, a3) ==
    IF ~a3.nan /\ a3.v = 0
    THEN \* a ** 3 underflows to 0.0 and the float division raises (on the
         \* grid a ** 3 is 0 below 80 km)
         PositionRaise(self, "ZeroDivisionError", "float division by zero")
    ELSE Bind(MeanAnomalyAtTime(self, time_delta_seconds, a3),
              LAMBDA mean_anomaly_at_time :
                  PositionFromMeanAnomaly(self, mean_anomaly_at_time))

\* a faulty calculate_position: the check of the sign is missing
calculate_position_Unchecked(self, time_delta_seconds) ==
    Bind(Cube(self.semi_major_axis),
         LAMBDA a3 : PositionFromCube(self, time_delta_seconds, a3))

calculate_position(self, time_delta_seconds) ==
    IF FLt(time_delta_seconds, PyFloat(0))
    THEN PositionRaise(self, "ValueError", "Time delta cannot be negative")
    ELSE Bind(Cube(self.semi_major_axis),
              LAMBDA a3 : PositionFromCube(self, time_delta_seconds, a3))

(***************************************************************************)
(* The altitude accessors and the comparison operators of Satellite.       *)
(* Every result is [raised, msg, value, self].                             *)
(***************************************************************************)
EarthRadiusKm == 6371

earth_radius == PyFloat(EarthRadiusKm * Scale)

Return(self, x) == [raised |-> "", msg |-> "", value |-> x, self |-> self]

Throw(self, exc, m) == [raised |-> exc, msg |-> m, value |-> PyNone, self |-> self]

get_altitude(self) == Return(self, FSub(self.semi_major_axis, earth_radius))

get_perigee_altitude(self) ==
    LET perigee_radius == FMul(self.semi_major_axis, FSub(PyInt(1), self.eccentricity))
    IN Return(self, FSub(perigee_radius, earth_radius))

get_apogee_altitude(self) ==
    LET apogee_radius == FMul(self.semi_major_axis, FAdd(PyInt(1), self.eccentricity))
    IN Return(self, FSub(apogee_radius, earth_radius))

IsSatellite(x) == x.cls = "Satellite"

\* a faulty __eq__: the objects are compared field by field
Satellite__eq__ByFields(self, other) ==
    IF ~IsSatellite(other) THEN Return(self, FALSE)
    ELSE Return(self, self = other)

\* a faulty __eq__: a value that is no Satellite is refused, as the ordering
\* operators refuse it
Satellite__eq__Strict(self, other) ==
    IF ~IsSatellite(other)
    THEN Throw(self, "TypeError", "Cannot compare Satellite with <class '" \o other.cls \o "'>")
    ELSE Return(self, self.satellite_id = other.satellite_id)

Satellite__eq__(self, other) ==
    IF ~IsSatellite(other) THEN Return(self, FALSE)
    ELSE Return(self, self.satellite_id = other.satellite_id)

\* Python derives != from __eq__: the class defines no __ne__, and what
\* __eq__ raises passes through
Satellite__ne__(self, other) ==
    IF Satellite__eq__(self, other).raised # "" THEN Satellite__eq__(self, other)
    ELSE Return(self, ~Satellite__eq__(self, other).value)

CannotCompare(self, other) ==
    Throw(self, "TypeError", "Cannot compare Satellite with <class '" \o other.cls \o "'>")

Satellite__lt__(self, other) ==
    IF ~IsSatellite(other) THEN CannotCompare(self, other)
    ELSE Return(self, FLt(get_altitude(self).value, get_altitude(other).value))

\* a faulty __le__: the altitudes are compared with <
Satellite__le__Strict(self, other) ==
    IF ~IsSatellite(other) THEN CannotCompare(self, other)
    ELSE Return(self, FLt(get_altitude(self).value, get_altitude(other).value))

Satellite__le__(self, other) ==
    IF ~IsSatellite(other) THEN CannotCompare(self, other)
    ELSE Return(self, FLe(get_altitude(self).value, get_altitude(other).value))

Satellite__gt__(self, other) ==
    IF ~IsSatellite(other) THEN CannotCompare(self, other)
    ELSE Return(self, FGt(get_altitude(self).value, get_altitude(other).value))

\* a faulty __ge__: the isinstance check is missing, and other.get_altitude()
\* fails on a value that has no such method
Satellite__ge__Unchecked(self, other) ==
    IF ~IsSatellite(other)
    THEN Throw(self, "AttributeError",
               "'" \o other.cls \o "' object has no attribute 'get_altitude'")
    ELSE Return(self, FGe(get_altitude(self).value, get_altitude(other).value))

Satellite__ge__(self, other) ==
    IF ~IsSatellite(other) THEN CannotCompare(self, other)
    ELSE Return(self, FGe(get_altitude(self).value, get_altitude(other).value))

(***************************************************************************)
(* orbital_mechanics.py: calculate_orbital_period, calculate_velocity and  *)
(* predict_future_positions.  Their first argument is any Python value.    *)
(***************************************************************************)
NotASatellite(x) == Throw(x, "TypeError", "satellite must be a Satellite instance")

\* T = 2*pi*sqrt(a^3/mu), in seconds
calculate_orbital_period(satellite) ==
    IF ~IsSatellite(satellite) THEN NotASatellite(satellite)
    ELSE LET a3 == Cube(satellite.semi_major_axis)
             period == FMul(PyFloat(TwoPi), FSqrt(FDiv(a3, PyFloat(Mu))))
         IN Return(satellite, FromThousands(period))

\* the norm of v = <<x, y, z>> in km, in 1000 km
Norm(v) ==
    FSqrt(FAdd(FAdd(FMul(ToThousands(v[1]), ToThousands(v[1])),
                    FMul(ToThousands(v[2]), ToThousands(v[2]))),
               FMul(ToThousands(v[3]), ToThousands(v[3]))))

\* a faulty calculate_velocity: a failure of calculate_position is caught
\* and the velocity 0.0 returned
VelocityFromPosition_Swallowing(p) ==
    IF p.raised # "" THEN Return(p.self, PyFloat(0))
    ELSE Return(p.self,
                FSqrt(FMul(PyFloat(Mu),
                           FSub(FDiv(PyInt(2), Norm(p.value)),
                                FDiv(PyInt(1), ToThousands(p.self.semi_major_axis))))))

\* v = sqrt(mu * (2/r - 1/a)), in km/s, from the position p
VelocityFromPosition(p) ==
    IF p.raised # "" THEN Throw(p.self, p.raised, p.msg)
    ELSE Return(p.self,
                FSqrt(FMul(PyFloat(Mu),
                           FSub(FDiv(PyInt(2), Norm(p.value)),
                                FDiv(PyInt(1), ToThousands(p.self.semi_major_axis))))))

calculate_velocity(satellite, time_delta_seconds) ==
    IF ~IsSatellite(satellite) THEN NotASatellite(satellite)
    ELSE Bind(calculate_position(satellite, time_delta_seconds), VelocityFromPosition)

\* a faulty int(x): rounds to the nearest integer
IntOf_Rounded(x) == RDiv(x.v, Scale)

\* int(x) of a finite float: the digits after the point are dropped
IntOf(x) == Sign(x.v) * (Abs(x.v) \div Scale)

\* one pass through the body of the while loop, at index i, from the loop
\* state st = [raised, msg, time_points, positions, calls, self]; calls lists
\* the times calculate_position was called with; once calculate_position has
\* raised the function is left, and a later pass does nothing
PredictBody(st, i, effective_resolution, time_hours) ==
    IF st.raised # "" THEN st
    ELSE LET time_delta_seconds ==
                 FMul(FMul(PyInt(i), effective_resolution), PyInt(60))
         IN IF FLe(time_delta_seconds, FMul(time_hours, PyInt(3600)))
            THEN Bind(calculate_position(st.self, time_delta_seconds),
                      LAMBDA p :
                          IF p.raised # ""
                          THEN [raised |-> p.raised, msg |-> p.msg,
                                time_points |-> <<>>, positions |-> <<>>,
                                calls |-> Append(st.calls, time_delta_seconds),
                                self |-> p.self]
                          ELSE [raised |-> "", msg |-> "",
                                time_points |-> Append(st.time_points, time_delta_seconds),
                                positions |-> Append(st.positions, p.value),
                                calls |-> Append(st.calls, time_delta_seconds),
                                self |-> p.self])
            ELSE st

\* while i < num_points: the n passes at the indices i, i + 1, ..., split in halves
RECURSIVE PredictLoop(_, _, _, _, _)
PredictLoop(st, i, n, effective_resolution, time_hours) ==
    IF n <= 0 THEN st
    ELSE IF n = 1 THEN PredictBody(st, i, effective_resolution, time_hours)
    ELSE Bind(PredictLoop(st, i, n \div 2, effective_resolution, time_hours),
              LAMBDA half : PredictLoop(half, i + (n \div 2), n - (n \div 2),
                                        effective_resolution, time_hours))

\* the loop state before the first pass
PredictStart(satellite) ==
    [raised |-> "", msg |-> "", time_points |-> <<>>, positions |-> <<>>,
     calls |-> <<>>, self |-> satellite]

PredictRaise(satellite, exc, m) ==
    [raised |-> exc, msg |-> m, time_points |-> <<>>, positions |-> <<>>,
     calls |-> <<>>, self |-> satellite]

\* a faulty predict_future_positions: the loop steps by resolution_minutes,
\* not by the effective resolution
predict_future_positions_Unsmoothed(satellite, time_hours, resolution_minutes, smooth_factor) ==
    IF ~IsSatellite(satellite)
    THEN PredictRaise(satellite, "TypeError", "satellite must be a Satellite instance")
    ELSE IF LeC(time_hours, 0)
    THEN PredictRaise(satellite, "ValueError", "time_hours must be positive")
    ELSE IF LeC(resolution_minutes, 0)
    THEN PredictRaise(satellite, "ValueError", "resolution_minutes must be positive")
    ELSE IF ~smooth_factor.nan /\ smooth_factor.v = 0
    THEN PredictRaise(satellite, "ZeroDivisionError", "division by zero")
    ELSE LET effective_resolution == FDiv(resolution_minutes, smooth_factor)
             total_minutes == FMul(time_hours, PyInt(60))
         IN IF ~effective_resolution.nan /\ effective_resolution.v = 0
            THEN PredictRaise(satellite, "ZeroDivisionError", "float division by zero")
            ELSE LET quotient == FDiv(total_minutes, effective_resolution)
                 IN IF quotient.nan
                    THEN PredictRaise(satellite, "ValueError",
                                      "cannot convert float NaN to integer")
                    ELSE PredictLoop(PredictStart(satellite), 0, IntOf(quotient),
                                     ToFloat(resolution_minutes), time_hours)

predict_future_positions(satellite, time_hours, resolution_minutes, smooth_factor) ==
    IF ~IsSatellite(satellite)
    THEN PredictRaise(satellite, "TypeError", "satellite must be a Satellite instance")
    ELSE IF LeC(time_hours, 0)
    THEN PredictRaise(satellite, "ValueError", "time_hours must be positive")
    ELSE IF LeC(resolution_minutes, 0)
    THEN PredictRaise(satellite, "ValueError", "resolution_minutes must be positive")
    ELSE IF ~smooth_factor.nan /\ smooth_factor.v = 0
    THEN PredictRaise(satellite, "ZeroDivisionError", "division by zero")
    ELSE LET effective_resolution == FDiv(resolution_minutes, smooth_factor)
             total_minutes == FMul(time_hours, PyInt(60))
         IN IF ~effective_resolution.nan /\ effective_resolution.v = 0
            THEN PredictRaise(satellite, "ZeroDivisionError", "float division by zero")
            ELSE LET quotient == FDiv(total_minutes, effective_resolution)
                 IN IF quotient.nan
                    THEN PredictRaise(satellite, "ValueError",
                                      "cannot convert float NaN to integer")
                    ELSE PredictLoop(PredictStart(satellite), 0, IntOf(quotient),
                                     effective_resolution, time_hours)

(***************************************************************************)
(* generate_position_generator.  A generator object is a frame [state,     *)
(* satellite, time_hours, resolution_minutes, total_seconds,               *)
(* resolution_seconds, current_time]: creating it runs none of the body;   *)
(* each next() runs the body to the next yield.  satellite is the index    *)
(* of the Satellite in sats, or the value passed when it is no Satellite.  *)
(* The result of next() is [raised, msg, value, calls, gen, self].  A      *)
(* frame also keeps its history: yielded, the items it has yielded, and    *)
(* calls, the times it has called calculate_position with.                 *)
(***************************************************************************)
NewGenerator(satellite, time_hours, resolution_minutes) ==
    [state |-> "created", satellite |-> satellite, time_hours |-> time_hours,
     resolution_minutes |-> resolution_minutes, total_seconds |-> PyInt(0),
     resolution_seconds |-> PyInt(0), current_time |-> PyInt(0),
     yielded |-> <<>>, calls |-> <<>>]

GenStop(g, satellite, exc, m, calls) ==
    [raised |-> exc, msg |-> m, value |-> <<>>, calls |-> calls,
     gen |-> [g EXCEPT !.state = "closed"], self |-> satellite]

\* a faulty loop: with every item the position of the next one is computed
\* in advance
GenLoop_Prefetch(g, satellite) ==
    IF FLe(g.current_time, g.total_seconds)
    THEN Bind(calculate_position(satellite, g.current_time),
              LAMBDA p :
                  IF p.raised # ""
                  THEN GenStop([g EXCEPT !.calls = Append(@, g.current_time)],
                               p.self, p.raised, p.msg, <<g.current_time>>)
                  ELSE [raised |-> "", msg |-> "",
                        value |-> <<g.current_time, p.value>>,
                        calls |-> <<g.current_time,
                                    FAdd(g.current_time, g.resolution_seconds)>>,
                        gen |-> [g EXCEPT !.state = "suspended",
                                          !.calls = @ \o
                                              <<g.current_time,
                                                FAdd(g.current_time,
                                                     g.resolution_seconds)>>,
                                          !.yielded =
                                              Append(@, <<g.current_time, p.value>>)],
                        self |-> p.self])
    ELSE GenStop(g, satellite, "StopIteration", "", <<>>)

\* the loop test and body, up to the yield
GenLoop(g, satellite) ==
    IF FLe(g.current_time, g.total_seconds)
    THEN Bind(calculate_position(satellite, g.current_time),
              LAMBDA p :
                  IF p.raised # ""
                  THEN GenStop([g EXCEPT !.calls = Append(@, g.current_time)],
                               p.self, p.raised, p.msg, <<g.current_time>>)
                  ELSE [raised |-> "", msg |-> "",
                        value |-> <<g.current_time, p.value>>,
                        calls |-> <<g.current_time>>,
                        gen |-> [g EXCEPT !.state = "suspended",
                                          !.calls = Append(@, g.current_time),
                                          !.yielded =
                                              Append(@, <<g.current_time, p.value>>)],
                        self |-> p.self])
    ELSE GenStop(g, satellite, "StopIteration", "", <<>>)

\* a faulty next(): the body has no isinstance check, and the first call of
\* satellite.calculate_position fails on a value that has no such method
generator_next_Unchecked(g, satellite) ==
    IF g.state = "closed" THEN GenStop(g, satellite, "StopIteration", "", <<>>)
    ELSE IF g.state = "created"
    THEN IF ~IsSatellite(satellite)
         THEN GenStop(g, satellite, "AttributeError",
                      "object has no attribute 'calculate_position'", <<>>)
         ELSE GenLoop([g EXCEPT !.total_seconds = FMul(g.time_hours, PyInt(3600)),
                                !.resolution_seconds =
                                    FMul(g.resolution_minutes, PyInt(60)),
                                !.current_time = PyInt(0)],
                      satellite)
    ELSE GenLoop([g EXCEPT !.current_time = FAdd(g.current_time, g.resolution_seconds)],
                 satellite)

generator_next(g, satellite) ==
    IF g.state = "closed" THEN GenStop(g, satellite, "StopIteration", "", <<>>)
    ELSE IF g.state = "created"
    THEN IF ~IsSatellite(satellite)
         THEN GenStop(g, satellite, "TypeError",
                      "satellite must be a Satellite instance", <<>>)
         ELSE GenLoop([g EXCEPT !.total_seconds = FMul(g.time_hours, PyInt(3600)),
                                !.resolution_seconds =
                                    FMul(g.resolution_minutes, PyInt(60)),
                                !.current_time = PyInt(0)],
                      satellite)
    ELSE GenLoop([g EXCEPT !.current_time = FAdd(g.current_time, g.resolution_seconds)],
                 satellite)

(***************************************************************************)
(* create_satellite_objects.  A dictionary of satellite data is            *)
(* [keys, data]: the keys it has, and under data the values, named as the  *)
(* constructor's arguments are.  The result is [raised, msg, value,        *)
(* errors]: value is the list of Satellites, errors the warnings printed.  *)
(***************************************************************************)
RequiredKeys ==
    <<"name", "id", "inclination", "eccentricity", "semi_major_axis", "mean_anomaly",
      "epoch">>

AllKeys == {RequiredKeys[k] : k \in 1..Len(RequiredKeys)} \cup {"raan", "argument_of_perigee"}

\* the first sat_data[key] that raises KeyError, 0 when none does
FirstMissingKey(sat_data) ==
    IF \A k \in 1..Len(RequiredKeys) : RequiredKeys[k] \in sat_data.keys THEN 0
    ELSE CHOOSE k \in 1..Len(RequiredKeys) :
             /\ RequiredKeys[k] \notin sat_data.keys
             /\ \A j \in 1..(k - 1) : RequiredKeys[j] \in sat_data.keys

\* the arguments of the call Satellite(...): raan and argument_of_perigee
\* are sat_data.get(key, 0.0)
ArgumentsOf(sat_data) ==
    [sat_data.data EXCEPT
        !.raan = IF "raan" \in sat_data.keys THEN @ ELSE PyFloat(0),
        !.argument_of_perigee =
            IF "argument_of_perigee" \in sat_data.keys THEN @ ELSE PyFloat(0)]

\* the body of the try
SatelliteFromData(sat_data) ==
    IF FirstMissingKey(sat_data) # 0
    THEN Raise("KeyError", RequiredKeys[FirstMissingKey(sat_data)])
    ELSE Satellite__init__(ArgumentsOf(sat_data))

\* the line of errors for the entry at idx (from 0)
ErrorLine(idx, sat_data, r) ==
    [satellite |-> idx + 1,
     name |-> IF "name" \in sat_data.keys THEN sat_data.data.name ELSE PyStr("unknown"),
     e |-> r.msg]

CreateEnd(satellites, errors) ==
    IF satellites = <<>>
    THEN [raised |-> "ValueError", msg |-> "No valid Satellite objects could be created",
          value |-> PyNone, errors |-> errors]
    ELSE [raised |-> "", msg |-> "", value |-> satellites, errors |-> errors]

RECURSIVE CreateLoop(_, _, _, _)
\* the for loop from the entry at idx (from 0) on
CreateLoop(satellite_data_list, idx, satellites, errors) ==
    IF idx >= Len(satellite_data_list) THEN CreateEnd(satellites, errors)
    ELSE Bind(SatelliteFromData(satellite_data_list[idx + 1]),
              LAMBDA r :
                  IF r.raised = ""
                  THEN CreateLoop(satellite_data_list, idx + 1,
                                  Append(satellites, r.self), errors)
                  ELSE IF r.raised \in {"ValueError", "KeyError"}
                  THEN CreateLoop(satellite_data_list, idx + 1, satellites,
                                  Append(errors,
                                         ErrorLine(idx, satellite_data_list[idx + 1], r)))
                  ELSE [raised |-> r.raised, msg |-> r.msg, value |-> PyNone,
                        errors |-> errors])

create_satellite_objects(satellite_data_list) == CreateLoop(satellite_data_list, 0, <<>>, <<>>)

(***************************************************************************)
(* calculate_orbital_elements.  tle_data is [keys, data] like a dictionary *)
(* of satellite data, with the fields of the function's docstring.  The    *)
(* result is [raised, msg, value]; value is the dictionary returned, a     *)
(* record of its keys.                                                     *)
(***************************************************************************)
ParseRaise(exc, m) == [raised |-> exc, msg |-> m, value |-> PyNone]

ParseReturn(x) == [raised |-> "", msg |-> "", value |-> x]

\* the strings float() reads as a number, with the number read
FloatLiterals == [x \in {"51.6", "0.001", "6778.0"} |->
                     IF x = "51.6" THEN 51600 ELSE IF x = "0.001" THEN 1 ELSE 6778000]

\* float(x) of any value x
PyFloatOf(x) ==
    IF IsNumber(x)
    THEN IF FloatOverflows(x)
         THEN ParseRaise("OverflowError", "int too large to convert to float")
         ELSE ParseReturn(ToFloat(x))
    ELSE IF IsStr(x)
    THEN IF x.s \in DOMAIN FloatLiterals THEN ParseReturn(PyFloat(FloatLiterals[x.s]))
         ELSE ParseRaise("ValueError", "could not convert string to float")
    ELSE ParseRaise("TypeError", "float() argument must be a string or a real number")

\* datetime.strptime(x, '%Y-%m-%d %H:%M:%S') of a string x: the datetimes of
\* the model are numbered, 1 is 2024-01-01 00:00:00
Strptime(x) ==
    IF x = "2024-01-01 00:00:00" THEN ParseReturn(PyDatetime(1))
    ELSE IF x = "2024-06-15 12:30:00" THEN ParseReturn(PyDatetime(2))
    ELSE ParseRaise("ValueError", "time data does not match format")

RECURSIVE CbrtSearch(_, _, _)
\* the largest r in lo..hi with r ** 3 <= n (on the grid), by bisection
CbrtSearch(n, lo, hi) ==
    IF lo >= hi THEN lo
    ELSE LET mid == (lo + hi + 1) \div 2
         IN IF MulScaled(MulScaled(mid, mid), mid) <= n
            THEN CbrtSearch(n, mid, hi)
            ELSE CbrtSearch(n, lo, mid - 1)

\* the largest cube root the grid holds
CbrtMax == 100000

\* x ** (1/3) for x >= 0
FCbrt(x) == IF x.nan THEN NaN ELSE PyFloat(CbrtSearch(x.v, 0, CbrtMax))

\* seconds per day, in 1000 s
DaySeconds == 86400

\* the semi-major axis from the mean motion in rev/day, computed in 1000 km
\* and 1000 s
FromMeanMotion(mean_motion) ==
    LET mean_motion_rad_per_sec ==
            FDiv(FMul(FMul(mean_motion, PyInt(2)), PyFloat(Pi)), PyFloat(DaySeconds))
        square == FMul(mean_motion_rad_per_sec, mean_motion_rad_per_sec)
    IN IF ~square.nan /\ square.v = 0
       THEN ParseRaise("ZeroDivisionError", "float division by zero")
       ELSE ParseReturn(FromThousands(FCbrt(FDiv(PyFloat(Mu), square))))

\* "Calculate or extract semi-major axis"
SemiMajorAxisOf(tle_data) ==
    IF "semi_major_axis" \in tle_data.keys THEN PyFloatOf(tle_data.data.semi_major_axis)
    ELSE IF "mean_motion" \in tle_data.keys
    THEN Bind(PyFloatOf(tle_data.data.mean_motion),
              LAMBDA m : IF m.raised # "" THEN m ELSE FromMeanMotion(m.value))
    ELSE ParseRaise("KeyError", "Either 'semi_major_axis' or 'mean_motion' must be provided")

\* "Parse epoch"
EpochOf(tle_data) ==
    IF IsStr(tle_data.data.epoch) THEN Strptime(tle_data.data.epoch.s)
    ELSE IF tle_data.data.epoch.cls = "datetime" THEN ParseReturn(tle_data.data.epoch)
    ELSE ParseRaise("ValueError", "Epoch must be a string or datetime object")

required_fields == <<"inclination", "eccentricity", "mean_anomaly", "epoch">>

\* "Validate values" and the return
ValidatedElements(inclination, eccentricity, semi_major_axis, mean_anomaly, epoch) ==
    IF LtC(inclination, 0) \/ GtC(inclination, 180 * Scale)
    THEN ParseRaise("ValueError", "Inclination must be between 0 and 180 degrees")
    ELSE IF LtC(eccentricity, 0) \/ GeC(eccentricity, 1 * Scale)
    THEN ParseRaise("ValueError", "Eccentricity must be between 0 and 1")
    ELSE ParseReturn([inclination |-> inclination, eccentricity |-> eccentricity,
                      semi_major_axis |-> semi_major_axis,
                      mean_anomaly |-> mean_anomaly, epoch |-> epoch])

\* the first of the values r that raised, or F applied to their values
Values4(r1, r2, r3, r4, F(_, _, _, _)) ==
    IF r1.raised # "" THEN r1
    ELSE IF r2.raised # "" THEN r2
    ELSE IF r3.raised # "" THEN r3
    ELSE IF r4.raised # "" THEN r4
    ELSE F(r1.value, r2.value, r3.value, r4.value)

\* the body of the try
OrbitalElementsBody(tle_data) ==
    IF \E k \in 1..Len(required_fields) : required_fields[k] \notin tle_data.keys
    THEN ParseRaise("KeyError", "Missing required field")
    ELSE Values4(PyFloatOf(tle_data.data.inclination),
                 PyFloatOf(tle_data.data.eccentricity),
                 PyFloatOf(tle_data.data.mean_anomaly),
                 SemiMajorAxisOf(tle_data),
                 LAMBDA inclination, eccentricity, mean_anomaly, semi_major_axis :
                     Bind(EpochOf(tle_data),
                          LAMBDA e :
                              IF e.raised # "" THEN e
                              ELSE ValidatedElements(inclination, eccentricity,
                                                     semi_major_axis, mean_anomaly,
                                                     e.value)))

\* the body, with KeyError and ValueError raised again as ValueError
calculate_orbital_elements(tle_data) ==
    Bind(OrbitalElementsBody(tle_data),
         LAMBDA r : IF r.raised \in {"KeyError", "ValueError"}
                    THEN ParseRaise("ValueError", <<"Error parsing orbital data: ", r.msg>>)
                    ELSE r)

(***************************************************************************)
(* Constructor inputs: for every argument, values of the right and of the  *)
(* wrong class, on both sides of each range limit, and NaN.                *)
(***************************************************************************)
NameInputs == {PyStr("ISS"), PyStr(""), PyNone}

IdInputs == {PyStr("25544"), PyStr(""), PyInt(25544)}

InclinationInputs == {PyFloat(51600), PyInt(180), PyFloat(180001), PyFloat(-1), NaN}

EccentricityInputs == {PyInt(0), PyFloat(999), PyInt(1), PyFloat(-1), NaN}

SemiMajorAxisInputs == {PyFloat(6778000), PyInt(0), PyStr("6778"), NaN}

MeanAnomalyInputs == {PyFloat(0), PyFloat(-45000), PyNone}

EpochInputs == {PyDatetime(1), PyStr("2024-01-01 00:00:00")}

RaanInputs == {PyInt(0), PyFloat(359999), PyInt(360), NaN}

ArgumentOfPerigeeInputs == {PyInt(0), PyFloat(-1), PyInt(360), PyNone}

CtorSpace ==
    [name : NameInputs, satellite_id : IdInputs, inclination : InclinationInputs,
     eccentricity : EccentricityInputs, semi_major_axis : SemiMajorAxisInputs,
     mean_anomaly : MeanAnomalyInputs, epoch : EpochInputs, raan : RaanInputs,
     argument_of_perigee : ArgumentOfPerigeeInputs]

Idle == [op |-> "idle"]

(***************************************************************************)
(* The calls.  Each is one action: the caller is idle, makes the call, and *)
(* last holds what came back.  The object a method or function leaves      *)
(* behind is stored back in sats.                                          *)
(***************************************************************************)
\* the first argument of a function of orbital_mechanics.py: a constructed
\* Satellite (by its index in sats) or some other value
Ref(i) == [ref |-> i, other |-> PyNone]

NoRef(x) == [ref |-> 0, other |-> x]

\* values that are no Satellite
Others == {PyStr("not a satellite"), PyInt(123)}

Targets == {Ref(i) : i \in 1..Len(sats)} \cup {NoRef(x) : x \in Others}

Deref(t) == IF t.ref > 0 THEN sats[t.ref] ELSE t.other

\* sats after a call on target t that left the object as self
Stored(t, self) == IF t.ref > 0 THEN [sats EXCEPT ![t.ref] = self] ELSE sats

\* what the caller sees of a result r: everything but the objects
Outcome(r) == [k \in (DOMAIN r) \ {"self", "gen"} |-> r[k]]

DoConstruct(a) ==
    \E r \in {Satellite__init__(a)} :
       /\ last' = [op |-> "__init__", args |-> a, raised |-> r.raised, msg |-> r.msg]
       /\ sats' = IF r.raised = "" THEN Append(sats, r.self) ELSE sats
       /\ built' = IF r.raised = "" THEN Append(built, r.self) ELSE built
       /\ UNCHANGED <<gens, threads>>

DoCalculatePosition(i, t) ==
    \E r \in {calculate_position(sats[i], t)} :
       /\ last' = [op |-> "calculate_position", target |-> Ref(i), t |-> t,
                   res |-> Outcome(r)]
       /\ sats' = Stored(Ref(i), r.self)
       /\ UNCHANGED <<built, gens, threads>>

DoSolveKepler(i, M, tol, n) ==
    \E r \in {solve_kepler_equation(sats[i], M, tol, n)} :
       /\ last' = [op |-> "solve_kepler_equation", target |-> Ref(i),
                   mean_anomaly_rad |-> M, tolerance |-> tol,
                   max_iterations |-> n, res |-> Outcome(r)]
       /\ sats' = Stored(Ref(i), r.self)
       /\ UNCHANGED <<built, gens, threads>>

AltitudeOps == {"get_altitude", "get_perigee_altitude", "get_apogee_altitude"}

Altitude(op, self) ==
    CASE op = "get_altitude" -> get_altitude(self)
      [] op = "get_perigee_altitude" -> get_perigee_altitude(self)
      [] OTHER -> get_apogee_altitude(self)

DoAltitude(i, op) ==
    \E r \in {Altitude(op, sats[i])} :
       /\ last' = [op |-> op, target |-> Ref(i), res |-> Outcome(r)]
       /\ sats' = Stored(Ref(i), r.self)
       /\ UNCHANGED <<built, gens, threads>>

CompareOps == {"__eq__", "__ne__", "__lt__", "__le__", "__gt__", "__ge__"}

OrderOps == {"__lt__", "__le__", "__gt__", "__ge__"}

Compare(op, self, other) ==
    CASE op = "__eq__" -> Satellite__eq__(self, other)
      [] op = "__ne__" -> Satellite__ne__(self, other)
      [] op = "__lt__" -> Satellite__lt__(self, other)
      [] op = "__le__" -> Satellite__le__(self, other)
      [] op = "__gt__" -> Satellite__gt__(self, other)
      [] OTHER -> Satellite__ge__(self, other)

DoCompare(i, o, op) ==
    \E r \in {Compare(op, sats[i], Deref(o))} :
       /\ last' = [op |-> op, target |-> Ref(i), other |-> o, res |-> Outcome(r)]
       /\ sats' = Stored(Ref(i), r.self)
       /\ UNCHANGED <<built, gens, threads>>

DoOrbitalPeriod(x) ==
    \E r \in {calculate_orbital_period(Deref(x))} :
       /\ last' = [op |-> "calculate_orbital_period", target |-> x, res |-> Outcome(r)]
       /\ sats' = Stored(x, r.self)
       /\ UNCHANGED <<built, gens, threads>>

DoVelocity(x, t) ==
    \E r \in {calculate_velocity(Deref(x), t)} :
       /\ last' = [op |-> "calculate_velocity", target |-> x, t |-> t,
                   res |-> Outcome(r)]
       /\ sats' = Stored(x, r.self)
       /\ UNCHANGED <<built, gens, threads>>

DoPredict(x, th, rm, sf) ==
    \E r \in {predict_future_positions(Deref(x), th, rm, sf)} :
       /\ last' = [op |-> "predict_future_positions", target |-> x,
                   time_hours |-> th, resolution_minutes |-> rm,
                   smooth_factor |-> sf, res |-> Outcome(r)]
       /\ sats' = Stored(x, r.self)
       /\ UNCHANGED <<built, gens, threads>>

DoGenerate(x, th, rm) ==
    /\ gens' = Append(gens, NewGenerator(x, th, rm))
    /\ last' = [op |-> "generate_position_generator", target |-> x,
                time_hours |-> th, resolution_minutes |-> rm, gen |-> Len(gens) + 1]
    /\ UNCHANGED <<sats, built, threads>>

\* a faulty next(): the cursor is one variable shared by all generators
DoNext_SharedCursor(g) ==
    \E r \in {generator_next(gens[g], Deref(gens[g].satellite))} :
       /\ last' = [op |-> "next", gen |-> g, target |-> gens[g].satellite,
                   before |-> gens[g], res |-> Outcome(r)]
       /\ gens' = [k \in 1..Len(gens) |->
                       IF k = g THEN r.gen
                       ELSE [gens[k] EXCEPT !.current_time = r.gen.current_time]]
       /\ sats' = Stored(gens[g].satellite, r.self)
       /\ UNCHANGED <<built, threads>>

DoNext(g) ==
    \E r \in {generator_next(gens[g], Deref(gens[g].satellite))} :
       /\ last' = [op |-> "next", gen |-> g, target |-> gens[g].satellite,
                   before |-> gens[g], res |-> Outcome(r)]
       /\ gens' = [gens EXCEPT ![g] = r.gen]
       /\ sats' = Stored(gens[g].satellite, r.self)
       /\ UNCHANGED <<built, threads>>

\* the caller takes the result
Consume ==
    /\ last # Idle
    /\ last' = Idle
    /\ UNCHANGED <<sats, built, gens, threads>>

(***************************************************************************)
(* A session: satellites are constructed from a few element sets and the   *)
(* methods and functions of the core are called on them.  Generators are   *)
(* created and consumed in a stretch of their own and are then let go.     *)
(***************************************************************************)
Elements(name, id, inc, ecc, sma, ma, raan, argp) ==
    [name |-> name, satellite_id |-> id, inclination |-> inc, eccentricity |-> ecc,
     semi_major_axis |-> sma, mean_anomaly |-> ma, epoch |-> PyDatetime(1),
     raan |-> raan, argument_of_perigee |-> argp]

\* the fixture of the tests; the same id with another name and other
\* elements; another id with the elements of the fixture; an element set with
\* a NaN semi-major axis; and one with an empty name
SampleArgs ==
    { Elements(PyStr("TestSat"), PyStr("12345"), PyFloat(51600), PyFloat(1),
               PyFloat(6778000), PyFloat(0), PyFloat(0), PyFloat(0)),
      Elements(PyStr("DifferentName"), PyStr("12345"), PyFloat(90000), PyFloat(500),
               PyFloat(8000000), PyFloat(400000), PyFloat(120000), PyFloat(270000)),
      Elements(PyStr("TestSat"), PyStr("99999"), PyFloat(51600), PyFloat(1),
               PyFloat(6778000), PyFloat(0), PyFloat(0), PyFloat(0)),
      Elements(PyStr("Blank"), PyStr("00002"), PyFloat(0), PyInt(0),
               NaN, PyFloat(0), PyFloat(0), PyFloat(0)),
      Elements(PyStr(""), PyStr("00003"), PyFloat(51600), PyFloat(1),
               PyFloat(6778000), PyFloat(0), PyFloat(0), PyFloat(0)) }

TimeInputs == {PyFloat(-100000), PyFloat(-1), PyInt(0), PyInt(600), NaN}

Init ==
    /\ sats = <<>>
    /\ built = <<>>
    /\ gens = <<>>
    /\ last = Idle
    /\ threads = <<>>

Construct ==
    /\ last = Idle
    /\ gens = <<>>
    /\ Len(sats) < MaxSats
    /\ \E a \in SampleArgs : DoConstruct(a)

CallCalculatePosition ==
    /\ last = Idle
    /\ gens = <<>>
    /\ \E i \in 1..Len(sats), t \in TimeInputs : DoCalculatePosition(i, t)

CallSolveKepler ==
    /\ last = Idle
    /\ gens = <<>>
    /\ \E i \in 1..Len(sats), M \in {PyFloat(1000), PyFloat(7000)},
          n \in {1, DefaultMaxIterations} :
         DoSolveKepler(i, M, PyFloat(DefaultTolerance), n)

CallAltitude ==
    /\ last = Idle
    /\ gens = <<>>
    /\ \E i \in 1..Len(sats), op \in AltitudeOps : DoAltitude(i, op)

CallCompare ==
    /\ last = Idle
    /\ gens = <<>>
    /\ \E i \in 1..Len(sats), o \in Targets, op \in CompareOps : DoCompare(i, o, op)

CallOrbitalPeriod ==
    /\ last = Idle
    /\ gens = <<>>
    /\ \E x \in Targets : DoOrbitalPeriod(x)

CallVelocity ==
    /\ last = Idle
    /\ gens = <<>>
    /\ \E x \in Targets, t \in TimeInputs : DoVelocity(x, t)

CallPredict ==
    /\ last = Idle
    /\ gens = <<>>
    /\ \E x \in Targets, th \in {PyInt(1), PyInt(-1)},
          rm \in {PyInt(10), PyInt(30), PyInt(120), PyInt(0)} :
         DoPredict(x, th, rm, PyInt(1))

CallGenerate ==
    /\ last = Idle
    /\ Len(gens) < MaxGens
    /\ \E x \in Targets, rm \in {PyInt(30), PyInt(120)} : DoGenerate(x, PyInt(1), rm)

CallNext ==
    /\ last = Idle
    /\ \E g \in 1..Len(gens) : DoNext(g)

\* the caller lets its generators go
DropGenerators ==
    /\ last = Idle
    /\ gens # <<>>
    /\ gens' = <<>>
    /\ UNCHANGED <<sats, built, last, threads>>

Next ==
    \/ Construct
    \/ CallCalculatePosition
    \/ CallSolveKepler
    \/ CallAltitude
    \/ CallCompare
    \/ CallOrbitalPeriod
    \/ CallVelocity
    \/ CallPredict
    \/ CallGenerate
    \/ CallNext
    \/ DropGenerators
    \/ Consume

Spec == Init /\ [][Next]_vars

(***************************************************************************)
(* The constructor on its own: every argument tuple of CtorSpace is        *)
(* handed to Satellite(...), which raises or builds the object.            *)
(***************************************************************************)
ConstructAny ==
    /\ last = Idle
    /\ sats = <<>>
    /\ \E a \in CtorSpace : DoConstruct(a)

NextCtor == ConstructAny

SpecCtor == Init /\ [][NextCtor]_vars

(***************************************************************************)
(* The solver on its own: one Satellite of each eccentricity, and          *)
(* solve_kepler_equation called on it with every mean anomaly, tolerance   *)
(* and iteration limit of the input sets.                                  *)
(***************************************************************************)
\* the object Satellite(a) builds, for an element set a the constructor accepts
Constructed(a) == Satellite__init__(a).self

SolverEccentricities == {PyInt(0), PyFloat(1), PyFloat(500), PyFloat(900), PyFloat(999)}

SolverSatellites ==
    { Constructed(Elements(PyStr("TestSat"), PyStr("12345"), PyFloat(51600), e,
                           PyFloat(6778000), PyFloat(0), PyFloat(0), PyFloat(0))) :
          e \in SolverEccentricities }

MeanAnomalyRadInputs ==
    {PyInt(0), PyFloat(1000), PyFloat(Pi), PyFloat(TwoPi), PyFloat(7000),
     PyFloat(-2000), NaN}

\* the default; a coarse tolerance; and 0, which no step can go below
ToleranceInputs == {PyFloat(DefaultTolerance), PyFloat(100), PyInt(0)}

MaxIterationsInputs == {0, 1, 3, DefaultMaxIterations}

InitSolver ==
    /\ sats \in {<<s>> : s \in SolverSatellites}
    /\ built = sats
    /\ gens = <<>>
    /\ last = Idle
    /\ threads = <<>>

SolveAny ==
    /\ last = Idle
    /\ \E M \in MeanAnomalyRadInputs, tol \in ToleranceInputs,
          n \in MaxIterationsInputs : DoSolveKepler(1, M, tol, n)

NextSolver ==
    \/ SolveAny
    \/ Consume

SpecSolver == InitSolver /\ [][NextSolver]_vars

(***************************************************************************)
(* The sampling on its own: predict_future_positions called on a           *)
(* Satellite, or on another value, with every duration, resolution and     *)
(* smooth factor of the input sets.                                        *)
(***************************************************************************)
PredictSatellites ==
    { Constructed(Elements(PyStr("TestSat"), PyStr("12345"), PyFloat(51600), PyFloat(1),
                           PyFloat(6778000), PyFloat(0), PyFloat(0), PyFloat(0))),
      Constructed(Elements(PyStr("Molniya"), PyStr("00001"), PyFloat(63400),
                           PyFloat(900), PyInt(26000), PyFloat(400000),
                           PyFloat(120000), PyFloat(270000))) }

TimeHoursInputs == {PyInt(1), PyFloat(500), PyFloat(100), PyInt(0), PyInt(-1), NaN}

ResolutionInputs == {PyInt(10), PyInt(7), PyFloat(2500), PyInt(120), PyInt(0), PyInt(-5)}

SmoothInputs == {PyInt(1), PyInt(3), PyInt(0)}

InitPredict ==
    /\ sats \in {<<s>> : s \in PredictSatellites}
    /\ built = sats
    /\ gens = <<>>
    /\ last = Idle
    /\ threads = <<>>

PredictAny ==
    /\ last = Idle
    /\ \E x \in Targets, th \in TimeHoursInputs, rm \in ResolutionInputs,
          sf \in SmoothInputs : DoPredict(x, th, rm, sf)

NextPredict ==
    \/ PredictAny
    \/ Consume

SpecPredict == InitPredict /\ [][NextPredict]_vars

(***************************************************************************)
(* The generators on their own: on one Satellite, or on a value that is    *)
(* no Satellite, up to MaxLive generators are created, advanced one item   *)
(* at a time in any order, and abandoned at any point; in between,         *)
(* predict_future_positions is called with the same arguments.             *)
(***************************************************************************)
GenSatellites ==
    { Constructed(Elements(PyStr("TestSat"), PyStr("12345"), PyFloat(51600), PyFloat(1),
                           PyFloat(6778000), PyFloat(0), PyFloat(0), PyFloat(0))),
      Constructed(Elements(PyStr("DifferentName"), PyStr("12345"), PyFloat(90000),
                           PyFloat(500), PyFloat(8000000), PyFloat(400000),
                           PyFloat(120000), PyFloat(270000))) }

GenTargets == {Ref(1), NoRef(PyStr("not a satellite"))}

GenResolutions == {PyInt(30), PyInt(120)}

\* the sequence s without its g-th element
RemoveAt(s, g) == [k \in 1..(Len(s) - 1) |-> IF k < g THEN s[k] ELSE s[k + 1]]

InitGen ==
    /\ sats \in {<<s>> : s \in GenSatellites}
    /\ built = sats
    /\ gens = <<>>
    /\ last = Idle
    /\ threads = <<>>

GenCreate ==
    /\ last = Idle
    /\ Len(gens) < MaxLive
    /\ \E x \in GenTargets, rm \in GenResolutions : DoGenerate(x, PyInt(1), rm)

GenAdvance ==
    /\ last = Idle
    /\ \E g \in 1..Len(gens) : DoNext(g)

\* the caller lets one generator go, wherever it stands
GenAbandon ==
    /\ last = Idle
    /\ \E g \in 1..Len(gens) : gens' = RemoveAt(gens, g)
    /\ UNCHANGED <<sats, built, last, threads>>

GenPredict ==
    /\ last = Idle
    /\ \E x \in GenTargets, rm \in GenResolutions :
         DoPredict(x, PyInt(1), rm, PyInt(1))

NextGen ==
    \/ GenCreate
    \/ GenAdvance
    \/ GenAbandon
    \/ GenPredict
    \/ Consume

SpecGen == InitGen /\ [][NextGen]_vars

(***************************************************************************)
(* calculate_position called in parallel: MaxThreads callers, each on a    *)
(* Satellite of its choice, run the method in steps that interleave        *)
(* freely.  A step is a stretch of the method between two reads of self;   *)
(* a frame [pc, target, t, M, E, res] holds the caller's position in the   *)
(* method, the index of its Satellite, its argument, its locals            *)
(* mean_anomaly_at_time and E, and what the method returned or raised.     *)
(***************************************************************************)
\* two objects with different elements, or two objects with the same elements
ParSatellites ==
    { <<Constructed(a), Constructed(b)>> :
          a \in {Elements(PyStr("TestSat"), PyStr("12345"), PyFloat(51600), PyFloat(1),
                          PyFloat(6778000), PyFloat(0), PyFloat(0), PyFloat(0))},
          b \in {Elements(PyStr("DifferentName"), PyStr("12345"), PyFloat(90000),
                          PyFloat(500), PyFloat(8000000), PyFloat(400000),
                          PyFloat(120000), PyFloat(270000)),
                 Elements(PyStr("TestSat"), PyStr("99999"), PyFloat(51600), PyFloat(1),
                          PyFloat(6778000), PyFloat(0), PyFloat(0), PyFloat(0))} }

ParTimes == {PyInt(0), PyInt(600), PyFloat(-1)}

IdleThread ==
    [pc |-> "idle", target |-> 0, t |-> PyNone, M |-> PyNone, E |-> PyNone,
     res |-> PyNone]

InitPar ==
    /\ sats \in ParSatellites
    /\ built = sats
    /\ gens = <<>>
    /\ last = Idle
    /\ threads = [th \in 1..MaxThreads |-> IdleThread]

\* the call is made
ParCall(th, i, t) ==
    /\ threads[th].pc = "idle"
    /\ threads' = [threads EXCEPT ![th] = [IdleThread EXCEPT !.pc = "entered",
                                                             !.target = i, !.t = t]]
    /\ UNCHANGED <<sats, built, gens, last>>

\* if time_delta_seconds < 0: raise
ParCheck(th) ==
    /\ threads[th].pc = "entered"
    /\ threads' =
           [threads EXCEPT ![th] =
               IF FLt(threads[th].t, PyFloat(0))
               THEN [@ EXCEPT !.pc = "done",
                              !.res = Outcome(PositionRaise(sats[threads[th].target],
                                                  "ValueError",
                                                  "Time delta cannot be negative"))]
               ELSE [@ EXCEPT !.pc = "checked"]]
    /\ UNCHANGED <<sats, built, gens, last>>

\* the mean motion and the mean anomaly at time t
ParMeanAnomaly(th) ==
    /\ threads[th].pc = "checked"
    /\ \E a3 \in {Cube(sats[threads[th].target].semi_major_axis)} :
          threads' =
              [threads EXCEPT ![th] =
                  IF ~a3.nan /\ a3.v = 0
                  THEN [@ EXCEPT !.pc = "done",
                                 !.res = Outcome(PositionRaise(sats[threads[th].target],
                                                     "ZeroDivisionError",
                                                     "float division by zero"))]
                  ELSE [@ EXCEPT !.pc = "propagated",
                                 !.M = MeanAnomalyAtTime(sats[threads[th].target],
                                                        threads[th].t, a3)]]
    /\ UNCHANGED <<sats, built, gens, last>>

\* a faulty step: the solver keeps the mean anomaly it worked on in the object
ParSolve_Caching(th) ==
    /\ threads[th].pc = "propagated"
    /\ \E k \in {solve_kepler_equation(sats[threads[th].target], threads[th].M,
                                       PyFloat(DefaultTolerance), DefaultMaxIterations)} :
          /\ threads' = [threads EXCEPT ![th] = [@ EXCEPT !.pc = "solved", !.E = k.value]]
          /\ sats' = Stored(Ref(threads[th].target),
                            [k.self EXCEPT !.mean_anomaly = threads[th].M])
    /\ UNCHANGED <<built, gens, last>>

\* E = self.solve_kepler_equation(mean_anomaly_at_time)
ParSolve(th) ==
    /\ threads[th].pc = "propagated"
    /\ \E k \in {solve_kepler_equation(sats[threads[th].target], threads[th].M,
                                       PyFloat(DefaultTolerance), DefaultMaxIterations)} :
          /\ threads' = [threads EXCEPT ![th] = [@ EXCEPT !.pc = "solved", !.E = k.value]]
          /\ sats' = Stored(Ref(threads[th].target), k.self)
    /\ UNCHANGED <<built, gens, last>>

\* the true anomaly, the radius, the rotations and the return
ParFinish(th) ==
    /\ threads[th].pc = "solved"
    /\ \E r \in {PositionFromSolution([value |-> threads[th].E,
                                       self |-> sats[threads[th].target]])} :
          /\ threads' = [threads EXCEPT ![th] = [@ EXCEPT !.pc = "done",
                                                          !.res = Outcome(r)]]
          /\ sats' = Stored(Ref(threads[th].target), r.self)
    /\ UNCHANGED <<built, gens, last>>

\* the caller takes the result
ParReturn(th) ==
    /\ threads[th].pc = "done"
    /\ threads' = [threads EXCEPT ![th] = IdleThread]
    /\ UNCHANGED <<sats, built, gens, last>>

NextPar ==
    \/ \E th \in 1..MaxThreads, i \in 1..Len(sats), t \in ParTimes : ParCall(th, i, t)
    \/ \E th \in 1..MaxThreads : ParCheck(th)
    \/ \E th \in 1..MaxThreads : ParMeanAnomaly(th)
    \/ \E th \in 1..MaxThreads : ParSolve(th)
    \/ \E th \in 1..MaxThreads : ParFinish(th)
    \/ \E th \in 1..MaxThreads : ParReturn(th)

SpecPar == InitPar /\ [][NextPar]_vars

(***************************************************************************)
(* One orbit later: calculate_position is called on a Satellite at a time  *)
(* t, calculate_orbital_period is called on it, and calculate_position is  *)
(* called again at t plus the period returned.  The Satellites are         *)
(* circular (e = 0, one of them with a NaN semi-major axis) and elliptical *)
(* up to e = 0.5.                                                          *)
(***************************************************************************)
OrbitSatellites ==
    { Constructed(Elements(PyStr("Circular"), PyStr("00010"), PyFloat(51600), PyInt(0),
                           PyFloat(6778000), PyFloat(0), PyFloat(0), PyFloat(0))),
      Constructed(Elements(PyStr("Polar"), PyStr("00011"), PyFloat(90000), PyFloat(0),
                           PyFloat(7000000), PyFloat(400000), PyFloat(120000),
                           PyFloat(270000))),
      Constructed(Elements(PyStr("Blank"), PyStr("00002"), PyFloat(0), PyInt(0),
                           NaN, PyFloat(0), PyFloat(0), PyFloat(0))),
      Constructed(Elements(PyStr("TestSat"), PyStr("12345"), PyFloat(51600), PyFloat(1),
                           PyFloat(6778000), PyFloat(0), PyFloat(0), PyFloat(0))),
      Constructed(Elements(PyStr("Mild"), PyStr("00012"), PyFloat(51600), PyFloat(300),
                           PyFloat(7000000), PyFloat(0), PyFloat(0), PyFloat(0))),
      Constructed(Elements(PyStr("Mild"), PyStr("00013"), PyFloat(51600), PyFloat(300),
                           PyFloat(7000000), PyFloat(400000), PyFloat(0), PyFloat(0))),
      Constructed(Elements(PyStr("Eccentric"), PyStr("00014"), PyFloat(51600), PyFloat(500),
                           PyFloat(7000000), PyFloat(0), PyFloat(0), PyFloat(0))),
      Constructed(Elements(PyStr("DifferentName"), PyStr("12345"), PyFloat(90000),
                           PyFloat(500), PyFloat(8000000), PyFloat(400000),
                           PyFloat(120000), PyFloat(270000))) }

OrbitTimes == {PyInt(0), PyInt(60), PyInt(600), PyInt(1800), PyInt(3000), PyInt(5400)}

InitOrbit ==
    /\ sats \in {<<s>> : s \in OrbitSatellites}
    /\ built = sats
    /\ gens = <<>>
    /\ last = Idle
    /\ threads = <<>>

OrbitPosition ==
    /\ last = Idle
    /\ \E t \in OrbitTimes : DoCalculatePosition(1, t)

OrbitPeriod ==
    /\ last = Idle
    /\ DoOrbitalPeriod(Ref(1))

\* the caller adds the period it was given to a time and asks for the position
OrbitLater ==
    /\ last.op = "calculate_orbital_period"
    /\ last.res.raised = ""
    /\ \E t \in OrbitTimes : DoCalculatePosition(1, FAdd(t, last.res.value))

NextOrbit ==
    \/ OrbitPosition
    \/ OrbitPeriod
    \/ OrbitLater
    \/ Consume

SpecOrbit == InitOrbit /\ [][NextOrbit]_vars

(***************************************************************************)
(* One generator consumed to its end: a generator is created on the        *)
(* Satellite and next() is called on it until it has ended.  The           *)
(* Satellites are the one of the tests, one with a NaN semi-major axis,    *)
(* and one whose semi-major axis is so small that a ** 3 is 0.0 (on the    *)
(* grid that is any axis below 80 km, in double precision any below about  *)
(* 1e-108 km).                                                             *)
(***************************************************************************)
DrainSatellites ==
    { Constructed(Elements(PyStr("TestSat"), PyStr("12345"), PyFloat(51600), PyFloat(1),
                           PyFloat(6778000), PyFloat(0), PyFloat(0), PyFloat(0))),
      Constructed(Elements(PyStr("Blank"), PyStr("00002"), PyFloat(0), PyInt(0),
                           NaN, PyFloat(0), PyFloat(0), PyFloat(0))),
      Constructed(Elements(PyStr("Tiny"), PyStr("00020"), PyFloat(51600), PyInt(0),
                           PyFloat(1), PyFloat(0), PyFloat(0), PyFloat(0))) }

DrainHours == {PyInt(0), PyFloat(500), PyInt(1), PyInt(-1)}

DrainResolutions == {PyInt(7), PyFloat(2500), PyInt(30), PyInt(120)}

InitDrain ==
    /\ sats \in {<<s>> : s \in DrainSatellites}
    /\ built = sats
    /\ gens = <<>>
    /\ last = Idle
    /\ threads = <<>>

DrainCreate ==
    /\ last = Idle
    /\ gens = <<>>
    /\ \E th \in DrainHours, rm \in DrainResolutions : DoGenerate(Ref(1), th, rm)

\* the for loop of the caller: next() until the generator has ended
DrainNext ==
    /\ last = Idle
    /\ Len(gens) = 1
    /\ gens[1].state # "closed"
    /\ DoNext(1)

NextDrain ==
    \/ DrainCreate
    \/ DrainNext
    \/ Consume

SpecDrain == InitDrain /\ [][NextDrain]_vars

(***************************************************************************)
(* Batches: create_satellite_objects is called on lists of up to MaxBatch  *)
(* dictionaries, some complete and valid, some with a value the            *)
(* constructor rejects, some with a key missing, and the list returned     *)
(* becomes the Satellites of the session.                                  *)
(***************************************************************************)
MaxBatch == 3

SatelliteData(keys, name, id, sma) ==
    [keys |-> keys,
     data |-> Elements(name, id, PyFloat(51600), PyFloat(1), sma, PyFloat(0),
                       PyFloat(10000), PyFloat(20000))]

BatchEntries ==
    { SatelliteData(AllKeys, PyStr("ISS"), PyStr("25544"), PyFloat(6778000)),
      SatelliteData(AllKeys \ {"raan", "argument_of_perigee"}, PyStr("Hubble"),
                    PyStr("20580"), PyInt(6918)),
      SatelliteData(AllKeys, PyStr(""), PyStr("00030"), PyFloat(6778000)),
      SatelliteData(AllKeys \ {"epoch"}, PyStr("NoEpoch"), PyStr("00031"),
                    PyFloat(6778000)),
      SatelliteData(AllKeys, PyStr("Far"), PyStr("00032"), PyHuge) }

RECURSIVE ListsUpTo(_)
\* the lists of at most n entries
ListsUpTo(n) ==
    IF n = 0 THEN {<<>>}
    ELSE ListsUpTo(n - 1) \cup
             {Append(l, e) : l \in {m \in ListsUpTo(n - 1) : Len(m) = n - 1},
                             e \in BatchEntries}

InitBatch ==
    /\ sats = <<>>
    /\ built = <<>>
    /\ gens = <<>>
    /\ last = Idle
    /\ threads = <<>>

BatchCreate ==
    /\ last = Idle
    /\ \E l \in ListsUpTo(MaxBatch) :
         \E r \in {create_satellite_objects(l)} :
            /\ last' = [op |-> "create_satellite_objects", satellite_data_list |-> l,
                        res |-> r]
            /\ sats' = IF r.raised = "" THEN r.value ELSE sats
            /\ built' = sats'
            /\ UNCHANGED <<gens, threads>>

NextBatch ==
    \/ BatchCreate
    \/ Consume

SpecBatch == InitBatch /\ [][NextBatch]_vars

(***************************************************************************)
(* Element dictionaries: calculate_orbital_elements is called on           *)
(* dictionaries that hold or lack each key, with values on both sides of   *)
(* the range limits, as numbers and as strings.                            *)
(***************************************************************************)
TleKeySets ==
    LET full == {"inclination", "eccentricity", "mean_anomaly", "epoch",
                 "semi_major_axis", "mean_motion"}
    IN {full, full \ {"mean_motion"}, full \ {"semi_major_axis"},
        full \ {"semi_major_axis", "mean_motion"}}
           \cup {full \ {required_fields[k]} : k \in 1..Len(required_fields)}

TleSpace ==
    [inclination : {PyFloat(51600), PyStr("51.6"), PyInt(180), PyFloat(180001),
                    PyFloat(-1)},
     eccentricity : {PyFloat(1), PyStr("0.001"), PyInt(1), PyFloat(-1)},
     mean_anomaly : {PyFloat(45000)},
     semi_major_axis : {PyFloat(6778000), PyInt(-1), PyInt(0)},
     mean_motion : {PyFloat(15500), PyInt(0)},
     epoch : {PyStr("2024-01-01 00:00:00"), PyDatetime(2), PyStr("2024-01-01"),
              PyInt(2024)}]

InitElements ==
    /\ sats = <<>>
    /\ built = <<>>
    /\ gens = <<>>
    /\ last = Idle
    /\ threads = <<>>

ElementsCall ==
    /\ last = Idle
    /\ \E keys \in TleKeySets, data \in TleSpace :
         \E r \in {calculate_orbital_elements([keys |-> keys, data |-> data])} :
            /\ last' = [op |-> "calculate_orbital_elements",
                        tle_data |-> [keys |-> keys, data |-> data], res |-> r]
            /\ UNCHANGED <<sats, built, gens, threads>>

NextElements ==
    \/ ElementsCall
    \/ Consume

SpecElements == InitElements /\ [][NextElements]_vars

(***************************************************************************)
(* Properties.                                                             *)
(***************************************************************************)
\* a number that is not NaN and has the value 0
IsZero(x) == IsNumber(x) /\ ~x.nan /\ x.v = 0

\* the Satellite a call recorded in last was made on
Receiver == sats[last.target.ref]

\* C1: on every constructed Satellite, calculate_position(t) with t < 0 raises
\* ValueError('Time delta cannot be negative') before anything is computed (the
\* solver is not called), returns no position, and leaves all fields as the
\* constructor stored them.
C1_NegativeTimeRejected ==
    (last.op = "calculate_position" /\ FLt(last.t, PyFloat(0))) =>
        /\ last.res.raised = "ValueError"
        /\ last.res.msg = "Time delta cannot be negative"
        /\ last.res.value = <<>>
        /\ last.res.kepler_calls = 0
        /\ Receiver = built[last.target.ref]

\* calculate_position(-0.001) was called on a Satellite and raised
C1_Witness ==
    /\ last.op = "calculate_position"
    /\ last.t = PyFloat(-1)
    /\ last.res.raised = "ValueError"
    /\ Len(sats) = 2

\* a number in the closed interval [lo, hi] (NaN is in no interval)
InClosed(x, lo, hi) == IsNumber(x) /\ ~x.nan /\ lo * Scale <= x.v /\ x.v <= hi * Scale

\* a number in the half-open interval [lo, hi)
InHalfOpen(x, lo, hi) == IsNumber(x) /\ ~x.nan /\ lo * Scale <= x.v /\ x.v < hi * Scale

\* a number greater than 0
IsPositive(x) == IsNumber(x) /\ ~x.nan /\ x.v > 0

\* the constructor's messages for the fields of a that are not as C2 requires
OffendingMessages(a) ==
    (IF IsStr(a.name) /\ a.name.s # "" THEN {}
     ELSE {"Satellite name must be a non-empty string"})
    \cup (IF IsStr(a.satellite_id) /\ a.satellite_id.s # "" THEN {}
          ELSE {"Satellite ID must be a non-empty string"})
    \cup (IF InClosed(a.inclination, 0, 180) THEN {}
          ELSE {"Inclination must be a number between 0 and 180 degrees"})
    \cup (IF InHalfOpen(a.eccentricity, 0, 1) THEN {}
          ELSE {"Eccentricity must be a number between 0 and 1"})
    \cup (IF IsPositive(a.semi_major_axis) THEN {}
          ELSE {"Semi-major axis must be a positive number"})
    \cup (IF IsNumber(a.mean_anomaly) THEN {} ELSE {"Mean anomaly must be a number"})
    \cup (IF a.epoch.cls = "datetime" THEN {} ELSE {"Epoch must be a datetime object"})
    \cup (IF InHalfOpen(a.raan, 0, 360) THEN {}
          ELSE {"RAAN must be a number between 0 and 360 degrees"})
    \cup (IF InHalfOpen(a.argument_of_perigee, 0, 360) THEN {}
          ELSE {"Argument of perigee must be a number between 0 and 360 degrees"})

\* C2: Satellite(...) builds an object only if every argument is of its class
\* and in its range (name and id non-empty strings, inclination in [0, 180],
\* eccentricity in [0, 1), semi-major axis > 0, mean anomaly a number, epoch a
\* datetime, raan and argument of perigee in [0, 360)); for any other argument
\* it raises ValueError with the message of an offending field and builds nothing.
C2_ConstructorValidates ==
    last.op = "__init__" =>
        IF OffendingMessages(last.args) = {}
        THEN last.raised = "" /\ Len(sats) = 1
        ELSE /\ last.raised = "ValueError"
             /\ last.msg \in OffendingMessages(last.args)
             /\ sats = <<>>

\* C3: no operation of the core changes a field of a Satellite: after any
\* sequence of calls, successful or failing, every Satellite holds the nine
\* values the constructor stored.
C3_FieldsNeverChange == sats = built

\* calculate_position has returned a position for a Satellite whose mean
\* anomaly at the time of the call differs from the stored one
C3_Witness ==
    /\ last.op = "calculate_position"
    /\ last.res.raised = ""
    /\ last.t = PyInt(600)
    /\ Receiver.name = PyStr("DifferentName")
    /\ Receiver = built[last.target.ref]

\* C4: for two Satellites a and b, a == b is True exactly when their
\* satellite_id are equal, whatever their names and orbital elements, and
\* a != b is the opposite.
C4_EqualityById ==
    (last.op \in {"__eq__", "__ne__"} /\ last.other.ref > 0) =>
        /\ last.res.raised = ""
        /\ last.res.value =
               IF last.op = "__eq__"
               THEN Receiver.satellite_id = sats[last.other.ref].satellite_id
               ELSE Receiver.satellite_id # sats[last.other.ref].satellite_id

\* a == b was True for two Satellites of one id that differ in name and elements
C4_Witness ==
    /\ last.op = "__eq__"
    /\ last.other.ref > 0
    /\ last.res.value = TRUE
    /\ Receiver.name # sats[last.other.ref].name
    /\ Receiver.semi_major_axis # sats[last.other.ref].semi_major_axis

\* the mean altitude of a Satellite, as get_altitude returns it
MeanAltitude(x) == get_altitude(x).value

\* == on floats
FEq(a, b) == ~a.nan /\ ~b.nan /\ a.v = b.v

\* the number of true values among three
CountTrue(p, q, r) ==
    (IF p THEN 1 ELSE 0) + (IF q THEN 1 ELSE 0) + (IF r THEN 1 ELSE 0)

\* C5: <, <=, >, >= order the Satellites totally by mean altitude: a < b iff
\* altitude(a) < altitude(b); a < b iff b > a; a <= b iff not (b < a); a >= b
\* iff b <= a; exactly one of a < b, b < a, altitude(a) = altitude(b); and <=
\* is transitive.
C5_TotalOrderByAltitude ==
    \A i, j, k \in 1..Len(sats) :
        LET a == sats[i]
            b == sats[j]
            c == sats[k]
        IN /\ Satellite__lt__(a, b).value <=> FLt(MeanAltitude(a), MeanAltitude(b))
           /\ Satellite__lt__(a, b).value <=> Satellite__gt__(b, a).value
           /\ Satellite__le__(a, b).value <=> ~Satellite__lt__(b, a).value
           /\ Satellite__ge__(a, b).value <=> Satellite__le__(b, a).value
           /\ CountTrue(Satellite__lt__(a, b).value, Satellite__lt__(b, a).value,
                        FEq(MeanAltitude(a), MeanAltitude(b))) = 1
           /\ (Satellite__le__(a, b).value /\ Satellite__le__(b, c).value)
                  => Satellite__le__(a, c).value

\* C6: <, <=, > or >= between a Satellite and a value that is no Satellite
\* raises TypeError and yields neither True nor False.
C6_OrderingNeedsSatellite ==
    (last.op \in OrderOps /\ last.other.ref = 0) =>
        /\ last.res.raised = "TypeError"
        /\ last.res.value = PyNone

\* satellite >= 123 raised TypeError
C6_Witness ==
    /\ last.op = "__ge__"
    /\ last.other = NoRef(PyInt(123))
    /\ last.res.raised = "TypeError"

\* C7: for every eccentricity in [0, 1), every mean anomaly and every
\* max_iterations >= 0, solve_kepler_equation makes at most max_iterations
\* Newton updates and returns a number without raising, converged or not; no
\* divisor f'(E) = 1 - e*cos(E) it used was zero.
C7_SolverTerminates ==
    (last.op = "solve_kepler_equation" /\ InHalfOpen(Receiver.eccentricity, 0, 1)) =>
        /\ last.res.raised = ""
        /\ IsNumber(last.res.value)
        /\ last.res.updates <= last.max_iterations
        /\ Len(last.res.fprimes) = last.res.updates
        /\ \A k \in 1..Len(last.res.fprimes) : ~IsZero(last.res.fprimes[k])

\* the solver used up its 100 updates at eccentricity 0.999 without meeting
\* the convergence test, and returned
C7_Witness ==
    /\ last.op = "solve_kepler_equation"
    /\ Receiver.eccentricity = PyFloat(999)
    /\ last.max_iterations = DefaultMaxIterations
    /\ last.res.updates = DefaultMaxIterations
    /\ ~last.res.converged
    /\ last.res.raised = ""

\* C8: with E_0 the initial guess and E_{n+1} the Newton update of E_n,
\* solve_kepler_equation returns at the first n with |E_{n+1} - E_n| < tolerance,
\* the value returned is E_{n+1} and nothing is computed after it; when no
\* iteration meets the test it returns E_{max_iterations} (the initial guess
\* when max_iterations = 0).
C8_ReturnsAtFirstConvergence ==
    last.op = "solve_kepler_equation" =>
        LET e == Receiver.eccentricity
            M == FMod(last.mean_anomaly_rad, PyFloat(TwoPi))
            E == last.res.trace
            n == last.res.updates
        IN /\ Len(E) = n + 1
           /\ E[1] = InitialGuess(e, last.mean_anomaly_rad)
           /\ \A k \in 1..n : E[k + 1] = NewtonUpdate(e, M, E[k])
           /\ \A k \in 1..(n - 1) : ~Converged(E[k + 1], E[k], last.tolerance)
           /\ last.res.value = E[n + 1]
           /\ \/ n >= 1 /\ Converged(E[n + 1], E[n], last.tolerance)
              \/ n = last.max_iterations

\* the solver met the test at its second or a later update, before the limit,
\* and returned a value that differs from the iterate before it
C8_Witness ==
    /\ last.op = "solve_kepler_equation"
    /\ last.res.converged
    /\ last.res.updates >= 2
    /\ last.res.updates < last.max_iterations
    /\ last.res.value # last.res.trace[last.res.updates]

\* a call of predict_future_positions on a Satellite with time_hours > 0,
\* resolution_minutes > 0 and smooth_factor > 0
ValidPredictCall ==
    /\ last.op = "predict_future_positions"
    /\ last.target.ref > 0
    /\ GtC(last.time_hours, 0)
    /\ GtC(last.resolution_minutes, 0)
    /\ GtC(last.smooth_factor, 0)

C10_SamplesStartAtZero ==
    /\ (/\ last.op = "predict_future_positions"
        /\ last.target.ref > 0
        /\ GtC(last.time_hours, 0)
        /\ GtC(last.resolution_minutes, 0))
           => /\ last.res.raised = ""
              /\ Len(last.res.time_points) >= 1
              /\ IsZero(last.res.time_points[1])
    /\ (/\ last.op = "next"
        /\ last.target.ref > 0
        /\ last.before.state = "created"
        /\ GtC(last.before.time_hours, 0)
        /\ GtC(last.before.resolution_minutes, 0))
           => /\ last.res.raised = ""
              /\ IsZero(last.res.value[1])

\* C11: a valid call of predict_future_positions returns exactly
\* floor(time_hours * 60 / (resolution_minutes / smooth_factor)) samples: each
\* of that many passes of the loop meets the guard time_delta_seconds <=
\* time_hours * 3600 and calls calculate_position once; when the duration is a
\* whole multiple of the effective resolution no sample lies at the end of
\* the duration.
C11_SampleCount ==
    ValidPredictCall =>
        LET eff == FDiv(last.resolution_minutes, last.smooth_factor)
            total == FMul(last.time_hours, PyInt(60))
            n == FDiv(total, eff).v \div Scale
            t == last.res.time_points
        IN /\ last.res.raised = ""
           /\ Len(t) = n
           /\ Len(last.res.calls) = n
           /\ FMul(PyInt(n), eff) = ToFloat(total) =>
                  \A k \in 1..Len(t) : FLt(t[k], FMul(last.time_hours, PyInt(3600)))

\* one hour at 10 minutes was sampled: 6 points, the last at 3000 s
C11_Witness ==
    /\ ValidPredictCall
    /\ last.time_hours = PyInt(1)
    /\ last.resolution_minutes = PyInt(10)
    /\ last.smooth_factor = PyInt(1)
    /\ Len(last.res.time_points) = 6
    /\ last.res.time_points[6] = PyFloat(3000000)

\* a generator on a Satellite that has been consumed to exhaustion
Exhausted(g) ==
    /\ g.state = "closed"
    /\ g.satellite.ref > 0
    /\ Len(g.calls) = Len(g.yielded)

\* C12: for one Satellite, duration and resolution (smooth_factor = 1), the
\* sequence predict_future_positions returns and the sequence a generator of
\* generate_position_generator yields when consumed to exhaustion hold the
\* same elapsed times in the same order, with the same positions.
C12_ListEqualsGenerator ==
    \A g \in 1..Len(gens) :
        (/\ Exhausted(gens[g])
         /\ last.op = "predict_future_positions"
         /\ last.target = gens[g].satellite
         /\ last.time_hours = gens[g].time_hours
         /\ last.resolution_minutes = gens[g].resolution_minutes
         /\ last.smooth_factor = PyInt(1))
            => /\ last.res.raised = ""
               /\ Len(last.res.time_points) = Len(gens[g].yielded)
               /\ \A k \in 1..Len(gens[g].yielded) :
                      /\ FEq(last.res.time_points[k], gens[g].yielded[k][1])
                      /\ last.res.positions[k] = gens[g].yielded[k][2]

\* the number of items a generator yields in all: one per multiple of the
\* resolution from 0 to the duration, both included
ItemsInAll(f) ==
    (FMul(f.time_hours, PyInt(3600)).v \div FMul(f.resolution_minutes, PyInt(60)).v) + 1

\* C13: every generator of generate_position_generator has a cursor of its
\* own that starts at 0: however the next() calls on generators of one
\* Satellite are interleaved, and whether or not another generator is
\* abandoned part-way, the k-th item a generator yields is the time (k - 1) *
\* resolution with the position of the Satellite at that time, and a generator
\* that has ended has yielded all its items.
C13_GeneratorsIndependent ==
    \A g \in 1..Len(gens) :
        gens[g].satellite.ref > 0 =>
            LET f == gens[g]
                step == FMul(f.resolution_minutes, PyInt(60))
                n == Len(f.yielded)
            IN /\ \A k \in 1..n :
                      /\ FEq(f.yielded[k][1], FMul(PyInt(k - 1), step))
                      /\ f.yielded[k][2] =
                             calculate_position(built[f.satellite.ref],
                                                f.yielded[k][1]).value
               /\ f.state = "created" => n = 0
               /\ f.state = "suspended" => n >= 1 /\ n <= ItemsInAll(f)
               /\ f.state = "closed" => n = ItemsInAll(f)

\* two generators of one Satellite with the same arguments stand at
\* different items: the first has yielded one item, the second all three
C13_Witness ==
    /\ Len(gens) = 2
    /\ gens[1].satellite = Ref(1)
    /\ gens[2].satellite = Ref(1)
    /\ gens[1].resolution_minutes = PyInt(30)
    /\ gens[2].resolution_minutes = PyInt(30)
    /\ Len(gens[1].yielded) = 1
    /\ Len(gens[2].yielded) = 3
    /\ gens[2].state = "closed"

\* C14: a generator is lazy.  Creating it computes no position; when it has
\* yielded k items it has called calculate_position exactly k times, with the
\* times 0, r, ..., (k - 1) * r in this order (r the resolution in seconds);
\* a next() that yields an item makes one call, a next() that ends the
\* generator makes none; so no position beyond the last item consumed is
\* ever computed.
C14_GeneratorIsLazy ==
    /\ \A g \in 1..Len(gens) :
           gens[g].satellite.ref > 0 =>
               LET f == gens[g]
                   step == FMul(f.resolution_minutes, PyInt(60))
               IN /\ Len(f.calls) = Len(f.yielded)
                  /\ \A k \in 1..Len(f.calls) :
                         FEq(f.calls[k], FMul(PyInt(k - 1), step))
                  /\ f.state = "created" => f.calls = <<>>
    /\ last.op = "generate_position_generator" =>
           /\ gens[last.gen].state = "created"
           /\ gens[last.gen].calls = <<>>
    /\ (last.op = "next" /\ last.target.ref > 0) =>
           /\ last.res.raised = "" => last.res.calls = <<last.res.value[1]>>
           /\ last.res.raised = "StopIteration" => last.res.calls = <<>>
           /\ last.res.raised \in {"", "StopIteration"}

\* the consumer has taken two of the three items of a generator: positions
\* were computed for 0 s and 1800 s, not for 3600 s
C14_Witness ==
    /\ last.op = "next"
    /\ last.target.ref > 0
    /\ last.res.calls = <<PyFloat(1800000)>>
    /\ gens[last.gen].state = "suspended"
    /\ Len(gens[last.gen].yielded) = 2
    /\ Len(gens[last.gen].calls) = 2

\* a number that is zero or negative
NotPositive(x) == ~x.nan /\ x.v <= 0

\* C15: predict_future_positions raises TypeError when its first argument is
\* no Satellite, whatever the other arguments are, and ValueError when, on a
\* Satellite, time_hours <= 0 or resolution_minutes <= 0; in each of these
\* cases calculate_position is never called and no sequence is returned.
C15_PredictRejects ==
    last.op = "predict_future_positions" =>
        /\ last.target.ref = 0 =>
               /\ last.res.raised = "TypeError"
               /\ last.res.msg = "satellite must be a Satellite instance"
        /\ (last.target.ref > 0 /\ NotPositive(last.time_hours)) =>
               /\ last.res.raised = "ValueError"
               /\ last.res.msg = "time_hours must be positive"
        /\ (/\ last.target.ref > 0
            /\ ~NotPositive(last.time_hours)
            /\ NotPositive(last.resolution_minutes)) =>
               /\ last.res.raised = "ValueError"
               /\ last.res.msg = "resolution_minutes must be positive"
        /\ (\/ last.target.ref = 0
            \/ NotPositive(last.time_hours)
            \/ NotPositive(last.resolution_minutes)) =>
               /\ last.res.raised # ""
               /\ last.res.calls = <<>>
               /\ last.res.time_points = <<>>
               /\ last.res.positions = <<>>
               /\ sats = built

\* a value that is no Satellite was passed with time_hours = -1 and
\* resolution_minutes = 0: TypeError
C15_Witness ==
    /\ last.op = "predict_future_positions"
    /\ last.target.ref = 0
    /\ last.time_hours = PyInt(-1)
    /\ last.resolution_minutes = PyInt(0)
    /\ last.res.raised = "TypeError"

\* C16: generate_position_generator called with a value that is no Satellite
\* returns a generator without raising; the first next() on it raises
\* TypeError, and the generator never yields an item nor computes a position.
C16_GeneratorNeedsSatellite ==
    /\ (last.op = "generate_position_generator" /\ last.target.ref = 0) =>
           /\ last.gen \in 1..Len(gens)
           /\ gens[last.gen].state = "created"
    /\ (last.op = "next" /\ last.target.ref = 0) =>
           /\ last.res.value = <<>>
           /\ last.res.calls = <<>>
           /\ gens[last.gen].state = "closed"
           /\ IF last.before.state = "created"
              THEN /\ last.res.raised = "TypeError"
                   /\ last.res.msg = "satellite must be a Satellite instance"
              ELSE last.res.raised = "StopIteration"
    /\ \A g \in 1..Len(gens) :
           gens[g].satellite.ref = 0 =>
               /\ gens[g].yielded = <<>>
               /\ gens[g].calls = <<>>

\* the first next() on a generator created for a string raised TypeError
C16_Witness ==
    /\ last.op = "next"
    /\ last.target = NoRef(PyStr("not a satellite"))
    /\ last.before.state = "created"
    /\ last.res.raised = "TypeError"

\* C17: calculate_velocity(satellite, t) fails whenever calculate_position(t)
\* fails: on a Satellite, t < 0 raises the ValueError of calculate_position
\* and no velocity is returned; a first argument that is no Satellite raises
\* TypeError whatever t is.
C17_VelocityFailsWithPosition ==
    last.op = "calculate_velocity" =>
        /\ last.target.ref = 0 =>
               /\ last.res.raised = "TypeError"
               /\ last.res.msg = "satellite must be a Satellite instance"
               /\ last.res.value = PyNone
        /\ (last.target.ref > 0 /\ FLt(last.t, PyFloat(0))) =>
               /\ last.res.raised = "ValueError"
               /\ last.res.msg = "Time delta cannot be negative"
               /\ last.res.value = PyNone
        /\ last.target.ref > 0 =>
               LET p == calculate_position(built[last.target.ref], last.t)
               IN p.raised # "" =>
                      /\ last.res.raised = p.raised
                      /\ last.res.msg = p.msg
                      /\ last.res.value = PyNone

\* calculate_velocity(satellite, -0.001) raised the ValueError of
\* calculate_position
C17_Witness ==
    /\ last.op = "calculate_velocity"
    /\ last.target.ref > 0
    /\ last.t = PyFloat(-1)
    /\ last.res.raised = "ValueError"
    /\ last.res.value = PyNone

\* C18: on every Satellite the constructor accepted, calculate_position(t)
\* with t >= 0 raises nothing and returns a tuple of exactly three finite
\* numbers.
C18_PositionIsFinite ==
    (last.op = "calculate_position" /\ FGe(last.t, PyFloat(0))) =>
        /\ last.res.raised = ""
        /\ Len(last.res.value) = 3
        /\ \A k \in 1..Len(last.res.value) :
               IsNumber(last.res.value[k]) /\ ~last.res.value[k].nan

\* C20: for every eccentricity in [0, 0.9] and every mean anomaly M, inside
\* or outside [0, 2*pi), solve_kepler_equation with the default tolerance and
\* max_iterations = 100 returns an E whose residual |E - e*sin(E) - (M mod
\* 2*pi)| is below a hundred times the tolerance (1e-8 for the default 1e-10).
C20_ResidualBelowBound ==
    (/\ last.op = "solve_kepler_equation"
     /\ InClosed(Receiver.eccentricity, 0, 1)
     /\ LeC(Receiver.eccentricity, 9 * (Scale \div 10))
     /\ ~last.mean_anomaly_rad.nan
     /\ last.tolerance = PyFloat(DefaultTolerance)
     /\ last.max_iterations = DefaultMaxIterations) =>
        /\ last.res.raised = ""
        /\ FLt(FAbs(KeplerF(Receiver.eccentricity,
                            FMod(last.mean_anomaly_rad, PyFloat(TwoPi)),
                            last.res.value)),
               FMul(PyInt(100), PyFloat(DefaultTolerance)))

\* the fields calculate_position reads
OrbitalElements(self) ==
    <<self.inclination, self.eccentricity, self.semi_major_axis, self.mean_anomaly,
      self.raan, self.argument_of_perigee>>

\* C19: what calculate_position returns depends on nothing but the elements
\* the constructor stored and t: with callers inside the method at once, on
\* one Satellite or on several and interleaved in any way, every call ends
\* with the result of a single call made alone on the elements as stored, and
\* two calls with equal elements and equal t end with the same result.
C19_PositionDependsOnElementsAndTime ==
    \A a, b \in DOMAIN threads :
        threads[a].pc = "done" =>
            /\ threads[a].res =
                   Outcome(calculate_position(built[threads[a].target], threads[a].t))
            /\ (/\ threads[b].pc = "done"
                /\ threads[b].t = threads[a].t
                /\ OrbitalElements(built[threads[b].target]) =
                       OrbitalElements(built[threads[a].target]))
                   => threads[b].res = threads[a].res

\* two callers went through calculate_position(600) at once on two objects
\* with the same elements, and both hold a position
C19_Witness ==
    /\ Len(threads) >= 2
    /\ threads[1].pc = "done"
    /\ threads[2].pc = "done"
    /\ threads[1].target # threads[2].target
    /\ threads[1].t = PyInt(600)
    /\ threads[2].t = PyInt(600)
    /\ OrbitalElements(built[1]) = OrbitalElements(built[2])
    /\ Len(threads[1].res.value) = 3
    /\ threads[1].res = threads[2].res

\* C29: a Satellite compared with == against a value that is no Satellite
\* gives False, and with != gives True; == and != never raise, whatever the
\* other operand is.
C29_EqualityWithOtherValues ==
    (last.op \in {"__eq__", "__ne__"}) =>
        /\ last.res.raised = ""
        /\ last.other.ref = 0 => last.res.value = (last.op = "__ne__")

\* satellite == 'not a satellite' returned False
C29_Witness ==
    /\ last.op = "__eq__"
    /\ last.other = NoRef(PyStr("not a satellite"))
    /\ last.res.raised = ""
    /\ last.res.value = FALSE

\* C28: equality and ordering of Satellites agree with each other: for any
\* two Satellites a and b, a == b implies a <= b and a >= b, and (a <= b and
\* b <= a) implies a == b.
C28_EqualityAgreesWithOrdering ==
    \A i, j \in 1..Len(sats) :
        LET a == sats[i]
            b == sats[j]
        IN /\ Satellite__eq__(a, b).value
                  => (Satellite__le__(a, b).value /\ Satellite__ge__(a, b).value)
           /\ (Satellite__le__(a, b).value /\ Satellite__le__(b, a).value)
                  => Satellite__eq__(a, b).value

\* C28, amended: equality and ordering of Satellites are separate relations.
\* a == b holds exactly when the ids are equal; a <= b and b <= a hold
\* together exactly when the mean altitudes compare equal, and so do a <= b
\* and a >= b.  Neither relation implies the other.
C28_EqualityAndOrderingSeparate ==
    \A i, j \in 1..Len(sats) :
        LET a == sats[i]
            b == sats[j]
        IN /\ Satellite__eq__(a, b).value <=> a.satellite_id = b.satellite_id
           /\ (Satellite__le__(a, b).value /\ Satellite__le__(b, a).value)
                  <=> FEq(MeanAltitude(a), MeanAltitude(b))
           /\ (Satellite__le__(a, b).value /\ Satellite__ge__(a, b).value)
                  <=> FEq(MeanAltitude(a), MeanAltitude(b))

\* a >= b was False for two Satellites of one id, which are ==
C28_Witness ==
    /\ last.op = "__ge__"
    /\ last.other.ref > 0
    /\ Receiver.satellite_id = sats[last.other.ref].satellite_id
    /\ last.res.value = FALSE
    /\ ~Receiver.semi_major_axis.nan

\* a <= b and b <= a for two Satellites of different ids
C28_SameAltitudeOtherId ==
    \E i, j \in 1..Len(sats) :
        /\ sats[i].satellite_id # sats[j].satellite_id
        /\ Satellite__le__(sats[i], sats[j]).value
        /\ Satellite__le__(sats[j], sats[i]).value

\* C23: for every constructed Satellite with semi-major axis a and
\* eccentricity e, get_altitude() = a - 6371, get_perigee_altitude() =
\* a*(1-e) - 6371 and get_apogee_altitude() = a*(1+e) - 6371, whatever was
\* called before and whatever the other fields are, so that perigee altitude
\* <= altitude <= apogee altitude, with equality exactly when e = 0.
C23_AltitudeChain ==
    /\ \A i \in 1..Len(sats) :
          LET a == built[i].semi_major_axis
              e == built[i].eccentricity
              R == PyFloat(EarthRadiusKm * Scale)
              altitude == get_altitude(sats[i]).value
              perigee == get_perigee_altitude(sats[i]).value
              apogee == get_apogee_altitude(sats[i]).value
          IN /\ altitude = FSub(a, R)
             /\ perigee = FSub(FMul(a, FSub(PyInt(1), e)), R)
             /\ apogee = FSub(FMul(a, FAdd(PyInt(1), e)), R)
             /\ FLe(perigee, altitude)
             /\ FLe(altitude, apogee)
             /\ (FEq(perigee, altitude) /\ FEq(altitude, apogee)) <=> IsZero(e)
    /\ (last.op \in AltitudeOps) =>
          /\ last.res.raised = ""
          /\ last.res.value = Altitude(last.op, built[last.target.ref]).value

\* the constructor's messages in the order of its arguments
FieldOrder ==
    << "Satellite name must be a non-empty string",
       "Satellite ID must be a non-empty string",
       "Inclination must be a number between 0 and 180 degrees",
       "Eccentricity must be a number between 0 and 1",
       "Semi-major axis must be a positive number",
       "Mean anomaly must be a number",
       "Epoch must be a datetime object",
       "RAAN must be a number between 0 and 360 degrees",
       "Argument of perigee must be a number between 0 and 360 degrees" >>

\* the message of the first field of a, in that order, that is not as the
\* constructor requires
FirstOffending(a) ==
    FieldOrder[CHOOSE k \in 1..Len(FieldOrder) :
                  /\ FieldOrder[k] \in OffendingMessages(a)
                  /\ \A j \in 1..(k - 1) : FieldOrder[j] \notin OffendingMessages(a)]

\* C26: the constructor's validation is fail-fast in a fixed order: when
\* several arguments are invalid at once, the ValueError raised is the one of
\* the first invalid field in the order name, satellite_id, inclination,
\* eccentricity, semi_major_axis, mean_anomaly, epoch, raan,
\* argument_of_perigee, and nothing has been built when it is raised.
C26_FirstInvalidFieldReported ==
    (last.op = "__init__" /\ OffendingMessages(last.args) # {}) =>
        /\ last.raised = "ValueError"
        /\ last.msg = FirstOffending(last.args)
        /\ sats = <<>>
        /\ built = <<>>

\* an object whose nine fields are in the domains of the constructor
ValidElements(self) == OffendingMessages(self) = {}

\* the distance between the points p and q (in km), in 1000 km
Separation(p, q) == Norm(<<FSub(p[1], q[1]), FSub(p[2], q[2]), FSub(p[3], q[3])>>)

\* C21: for every valid Satellite and every t >= 0, calculate_position(t + T)
\* equals calculate_position(t) within numerical tolerance, T being
\* calculate_orbital_period of the Satellite, although the solver starts from
\* the un-normalized mean anomaly when e < 0.8.  The tolerance here is 5 % of
\* the distance from the origin, which is above what the grid of the floats
\* loses over one period for the orbits of OrbitSatellites.
C21_PeriodicPosition ==
    (/\ last.op = "calculate_position"
     /\ ValidElements(Receiver)
     /\ FGe(last.t, calculate_orbital_period(Receiver).value)) =>
        LET T == calculate_orbital_period(Receiver).value
            earlier == calculate_position(Receiver, FSub(last.t, T))
        IN /\ last.res.raised = ""
           /\ earlier.raised = ""
           /\ 20 * Separation(last.res.value, earlier.value).v <= Norm(earlier.value).v

\* C22: for a Satellite with eccentricity below 1e-10, calculate_position
\* takes the circular branch (the true anomaly is the eccentric anomaly the
\* solver returned) and the distance of the returned position from the origin
\* equals the semi-major axis, for every t >= 0.  Equality is within 1 %,
\* which is above what the sine and cosine of the grid lose in the rotations.
C22_CircularOrbitRadius ==
    (/\ last.op = "calculate_position"
     /\ FGe(last.t, PyFloat(0))
     /\ LtC(Receiver.eccentricity, CircularThreshold)) =>
        LET a == ToThousands(Receiver.semi_major_axis)
            E == solve_kepler_equation(
                     Receiver,
                     MeanAnomalyAtTime(Receiver, last.t, Cube(Receiver.semi_major_axis)),
                     PyFloat(DefaultTolerance), DefaultMaxIterations).value
        IN /\ last.res.raised = ""
           /\ TrueAnomaly(Receiver.eccentricity, E) = E
           /\ FEq(Radius(Receiver.semi_major_axis, Receiver.eccentricity, E),
                  Receiver.semi_major_axis)
           /\ ~Norm(last.res.value).nan
           /\ 100 * Abs(Norm(last.res.value).v - a.v) <= a.v

\* a call of solve_kepler_equation on a Satellite of eccentricity exactly 0
\* with a mean anomaly M >= 0 and max_iterations >= 2
CircularSolverCall ==
    /\ last.op = "solve_kepler_equation"
    /\ IsZero(Receiver.eccentricity)
    /\ FGe(last.mean_anomaly_rad, PyFloat(0))
    /\ last.max_iterations >= 2

ItemsExpected(g) == (g.time_hours.v * 60) \div g.resolution_minutes.v + 1

\* C30: a generator on a Satellite with time_hours >= 0 and
\* resolution_minutes > 0 that has been consumed until it ended has ended by
\* running out (no exception), has yielded exactly
\* floor(time_hours * 60 / resolution_minutes) + 1 items, at the times
\* 0, r, 2r, ... with r = resolution_minutes * 60, and its last time is not
\* after time_hours * 3600.
C30_GeneratorItemCount ==
    \A i \in 1..Len(gens) :
        LET g == gens[i]
        IN (/\ g.state = "closed"
            /\ FGe(g.time_hours, PyInt(0))
            /\ FGt(g.resolution_minutes, PyInt(0)))
           => /\ Exhausted(g)
              /\ Len(g.yielded) = ItemsExpected(g)
              /\ \A k \in 1..Len(g.yielded) :
                     /\ FEq(g.yielded[k][1],
                            PyFloat((k - 1) * g.resolution_minutes.v * 60))
                     /\ FLe(g.yielded[k][1], PyFloat(g.time_hours.v * 3600))

\* the entry passes the constructor: an object is made of it
PassesConstructor(sat_data) == SatelliteFromData(sat_data).raised = ""

RECURSIVE ValidOf(_)
\* the Satellites of the entries of l that pass the constructor, in order
ValidOf(l) ==
    IF l = <<>> THEN <<>>
    ELSE IF PassesConstructor(l[Len(l)])
         THEN Append(ValidOf(SubSeq(l, 1, Len(l) - 1)),
                     NewObject(ArgumentsOf(l[Len(l)])).self)
         ELSE ValidOf(SubSeq(l, 1, Len(l) - 1))

\* C24: create_satellite_objects returns the Satellites of exactly the
\* entries that pass the constructor, in input order, whatever entries stand
\* before or after them, and raises ValueError if and only if no entry
\* passes.
C24_WholeBatchProcessed ==
    last.op = "create_satellite_objects" =>
        IF ValidOf(last.satellite_data_list) = <<>>
        THEN last.res.raised = "ValueError"
        ELSE /\ last.res.raised = ""
             /\ last.res.value = ValidOf(last.satellite_data_list)

\* the number a numeric field of tle_data stands for
Given(x) == PyFloatOf(x).value

\* tle_data is one the claim says is rejected
RejectedElements(d) ==
    \/ \E k \in 1..Len(required_fields) : required_fields[k] \notin d.keys
    \/ d.keys \cap {"semi_major_axis", "mean_motion"} = {}
    \/ ~InClosed(Given(d.data.inclination), 0, 180)
    \/ ~InHalfOpen(Given(d.data.eccentricity), 0, 1)
    \/ Strptime(d.data.epoch.s).raised # "" /\ d.data.epoch.cls # "datetime"

\* C25: calculate_orbital_elements raises ValueError when a required key is
\* missing, when neither semi_major_axis nor mean_motion is given, when the
\* inclination is outside [0, 180], the eccentricity outside [0, 1) or the
\* epoch cannot be parsed; otherwise it returns a dictionary with exactly the
\* keys inclination, eccentricity, semi_major_axis, mean_anomaly and epoch,
\* whose values lie in the domains of the Satellite constructor.
C25_ElementsValidated ==
    last.op = "calculate_orbital_elements" =>
        IF RejectedElements(last.tle_data) THEN last.res.raised = "ValueError"
        ELSE /\ last.res.raised = ""
             /\ DOMAIN last.res.value =
                    {"inclination", "eccentricity", "semi_major_axis", "mean_anomaly",
                     "epoch"}
             /\ InClosed(last.res.value.inclination, 0, 180)
             /\ InHalfOpen(last.res.value.eccentricity, 0, 1)
             /\ IsPositive(last.res.value.semi_major_axis)
             /\ IsNumber(last.res.value.mean_anomaly)
             /\ last.res.value.epoch.cls = "datetime"

====
